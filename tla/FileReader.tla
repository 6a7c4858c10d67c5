---------------------------- MODULE FileReader ----------------------------
(***************************************************************************)
(* A chat file handed to a Skill (src/executor/file.go): FileInput accepts *)
(* its description, Open asks its link, and exactReader streams the bytes, *)
(* failing rather than ending cleanly when the link serves more or fewer   *)
(* bytes than the description says.  The link is free to do all that       *)
(* io.Reader permits: short reads, the end reported with the last bytes or *)
(* after them, an error at any point, nothing at all.  Bytes are counted.  *)
(***************************************************************************)
EXTENDS Integers

CONSTANTS
    MaxFileBytes,   \* the largest file a host hands a skill
    MaxServed,      \* bound on the bytes a link serves
    MaxBuffer       \* bound on the buffers the executor reads into

ASSUME FileAssumption ==
    /\ MaxFileBytes \in Nat
    /\ MaxServed \in Nat
    /\ MaxBuffer \in Nat \ {0}

VARIABLES
    stage,       \* "handed", "valid", "rejected", "open", "unopened", "closed"
    size,        \* File.SizeBytes
    total,       \* bytes the link has to serve
    served,      \* bytes read from the response body so far
    remaining,   \* exactReader.remaining
    got,         \* bytes the executor has received
    last,        \* how its last Read ended
    noticed,     \* some Read has failed
    silent       \* a probe for one more byte got neither the byte nor the end

vars == <<stage, size, total, served, remaining, got, last, noticed, silent>>

TypeOK ==
    /\ stage \in {"handed", "valid", "rejected", "open", "unopened", "closed"}
    /\ size \in Int /\ (stage \notin {"handed", "rejected"} => size \in 0 .. MaxFileBytes)
    /\ total \in 0 .. MaxServed
    /\ served \in 0 .. total
    /\ remaining \in 0 .. MaxFileBytes
    /\ got \in Nat
    /\ last \in {"none", "nil", "eof", "changed", "error"}
    /\ noticed \in BOOLEAN
    /\ silent \in BOOLEAN

Init ==
    /\ stage = "handed"
    /\ size \in -1 .. MaxFileBytes + 1
    /\ total \in 0 .. MaxServed
    /\ served = 0 /\ remaining = 0 /\ got = 0
    /\ last = "none" /\ noticed = FALSE /\ silent = FALSE

(* Mutant of FileInput: the limit is off by one.                           *)
FileInputLax ==
    /\ stage = "handed"
    /\ stage' \in IF size < 0 \/ size > MaxFileBytes + 1 THEN {"rejected"}
                  ELSE {"valid", "rejected"}
    /\ UNCHANGED <<size, total, served, remaining, got, last, noticed, silent>>

(* FileInput: the size must be one a host may hand over, and so must the   *)
(* name and the link, which nothing below depends on.                      *)
FileInput ==
    /\ stage = "handed"
    /\ stage' \in IF size < 0 \/ size > MaxFileBytes THEN {"rejected"}
                  ELSE {"valid", "rejected"}
    /\ UNCHANGED <<size, total, served, remaining, got, last, noticed, silent>>

(* Open: the link answers 200, or the file stays unopened and a body that  *)
(* came with another status is closed.                                     *)
Open ==
    /\ stage = "valid"
    /\ \/ stage' = "open" /\ remaining' = size
       \/ stage' = "unopened" /\ UNCHANGED remaining
    /\ UNCHANGED <<size, total, served, got, last, noticed, silent>>

(* What Read of the response body may answer to a buffer of want bytes.    *)
BodyRead(want, n, err) ==
    /\ n <= want
    /\ n <= total - served
    /\ err = "eof" => served + n = total
    /\ served' = served + n

(* A Read of exactReader that hands n bytes and err to the executor.       *)
Hand(n, err) ==
    /\ got' = got + n
    /\ last' = err
    /\ noticed' = (noticed \/ err \in {"changed", "error"})

(* Mutant of Probe: the end is taken for granted.                          *)
NoProbe(n, err) ==
    /\ remaining <= 0
    /\ n = 0 /\ err = "eof"
    /\ Hand(0, "eof")
    /\ UNCHANGED <<served, remaining, silent>>

(* All bytes are delivered: one more byte means that the file has changed. *)
(* An error of this last read is dropped.                                  *)
Probe(n, err) ==
    /\ remaining <= 0
    /\ BodyRead(1, n, err)
    /\ IF n > 0 THEN Hand(0, "changed") ELSE Hand(0, "eof")
    /\ silent' = (silent \/ (n = 0 /\ err # "eof"))
    /\ UNCHANGED remaining

Shorter(a, b) == IF a < b THEN a ELSE b

(* Mutants of Deliver: an early end is passed on as a clean one, or as no  *)
(* end at all.                                                             *)
DeliverEarlyEnd(buffer, n, err) ==
    /\ remaining > 0
    /\ BodyRead(Shorter(buffer, remaining), n, err)
    /\ remaining' = remaining - n
    /\ Hand(n, err)
    /\ UNCHANGED silent

DeliverForever(buffer, n, err) ==
    /\ remaining > 0
    /\ BodyRead(Shorter(buffer, remaining), n, err)
    /\ remaining' = remaining - n
    /\ Hand(n, IF err = "eof" THEN "nil" ELSE err)
    /\ UNCHANGED silent

(* The body's next bytes, never more than remain to be delivered; its end  *)
(* is an error while some remain and is kept for the next Read otherwise.  *)
Deliver(buffer, n, err) ==
    /\ remaining > 0
    /\ BodyRead(Shorter(buffer, remaining), n, err)
    /\ remaining' = remaining - n
    /\ Hand(n, IF err # "eof" THEN err
               ELSE IF remaining' > 0 THEN "changed" ELSE "nil")
    /\ UNCHANGED silent

(* exactReader.Read, into a buffer of the executor's choice.               *)
ReadInto(buffer, n, err) ==
    /\ stage = "open"
    /\ Probe(n, err) \/ Deliver(buffer, n, err)
    /\ UNCHANGED <<stage, size, total>>

Read ==
    \E buffer \in 0 .. MaxBuffer, n \in 0 .. MaxServed, err \in {"nil", "eof", "error"} :
        ReadInto(buffer, n, err)

(* A Read of the loop that has not ended yet, into a real buffer, to which *)
(* the link answers a byte or its end.                                     *)
ReadOn ==
    /\ last \in {"none", "nil"}
    /\ \E buffer \in 1 .. MaxBuffer, n \in 0 .. MaxServed, err \in {"nil", "eof"} :
          (n > 0 \/ err = "eof") /\ ReadInto(buffer, n, err)

Close ==
    /\ stage = "open"
    /\ stage' = "closed"
    /\ UNCHANGED <<size, total, served, remaining, got, last, noticed, silent>>

Next == FileInput \/ Open \/ Read \/ Close

Spec == Init /\ [][Next]_vars

(* The executor reads until a Read ends the loop, and the link answers, if *)
(* not with an error: the context of the call bounds how long a transfer   *)
(* may stall.  Nothing makes it open the file, or close it.                *)
FairSpec == Spec /\ WF_vars(ReadOn)

-----------------------------------------------------------------------------
(* file.go:54-55: the executor never receives more bytes than SizeBytes,   *)
(* and a stream that ends cleanly has delivered exactly SizeBytes, however *)
(* the body cut its reads and however long the executor's buffers were.    *)
ExactSize ==
    stage \in {"open", "closed"} => got <= size /\ (last = "eof" => got = size)

(* A link that does not serve SizeBytes makes some Read fail before the    *)
(* stream ends cleanly, unless the probe for one more byte was answered    *)
(* neither the byte nor the end: exactReader takes that for the end.       *)
ChangeNoticed ==
    last = "eof" /\ total # size => (noticed \/ silent)

(* The read loop over an open file ends, cleanly or with an error, unless  *)
(* the file is closed first.                                               *)
ReadLoopEnds == stage = "open" ~> last \in {"eof", "changed", "error"} \/ stage = "closed"
=============================================================================
