------------------------- MODULE FileReaderProofs -------------------------
(***************************************************************************)
(* exactReader, for files of any size, links that serve any number of      *)
(* bytes and buffers of any length.                                        *)
(***************************************************************************)
EXTENDS FileReader, TLAPS

(* What remains and what was delivered make up the declared size; a clean  *)
(* end is reached when nothing remains.                                    *)
Accounted ==
    /\ stage \in {"handed", "rejected", "valid", "unopened"} =>
         got = 0 /\ last = "none" /\ served = 0
    /\ stage \in {"open", "closed"} => got + remaining = size
    /\ last = "eof" => remaining = 0

(* While nothing went wrong, what the body served is what was delivered,   *)
(* and a clean end is the end of the body.                                 *)
Followed ==
    ~noticed /\ ~silent => served = got /\ (last = "eof" => served = total)

Inv == TypeOK /\ Accounted /\ Followed

LEMMA InitInv == Init => Inv
<1> SUFFICES ASSUME Init PROVE Inv
  OBVIOUS
<1>1. size \in Int /\ total \in 0 .. MaxServed /\ 0 \in 0 .. total
  BY FileAssumption DEF Init
<1>2. TypeOK
  <2>1. noticed \in BOOLEAN /\ silent \in BOOLEAN
    BY Zenon DEF Init
  <2>2. stage = "handed" /\ served = 0 /\ got = 0 /\ remaining = 0 /\ last = "none"
    BY DEF Init
  <2>3. remaining \in 0 .. MaxFileBytes
    BY <2>2, FileAssumption
  <2> QED BY <1>1, <2>1, <2>2, <2>3 DEF TypeOK
<1>3. Accounted /\ Followed
  BY DEF Init, Accounted, Followed
<1> QED BY <1>2, <1>3 DEF Inv

(* One step of the reader: what a Read does to the accounts.               *)
LEMMA ReadInv ==
    ASSUME Inv, NEW buffer \in 0 .. MaxBuffer, NEW n \in 0 .. MaxServed,
           NEW err \in {"nil", "eof", "error"}, ReadInto(buffer, n, err)
    PROVE  Inv'
<1> USE FileAssumption DEF Inv, TypeOK, Accounted, Followed
<1>1. stage = "open" /\ UNCHANGED <<stage, size, total>>
  BY DEF ReadInto
<1>2. CASE Probe(n, err)
  <2>0. /\ remaining = 0 /\ remaining' = 0 /\ got' = got
        /\ served' = served + n /\ n <= total - served
        /\ last' = IF n > 0 THEN "changed" ELSE "eof"
        /\ err = "eof" => served + n = total
    BY <1>2 DEF Probe, BodyRead, Hand
  <2>1. /\ noticed' \in BOOLEAN /\ (noticed' <=> noticed \/ n > 0)
        /\ silent' \in BOOLEAN /\ (silent' <=> silent \/ (n = 0 /\ err # "eof"))
    BY <1>2 DEF Probe, Hand
  <2>2. TypeOK'
    BY <1>1, <2>0, <2>1
  <2>3. Accounted'
    BY <1>1, <2>0, <2>1
  <2>4. Followed'
    BY <1>1, <2>0, <2>1
  <2> QED BY <2>2, <2>3, <2>4
<1>3. CASE Deliver(buffer, n, err)
  <2>1. /\ n <= remaining /\ remaining' = remaining - n /\ got' = got + n
        /\ served' = served + n /\ n <= total - served
        /\ last' \in {"nil", "changed", "error"}
        /\ noticed' \in BOOLEAN /\ (noticed => noticed')
        /\ silent' = silent
    BY <1>3 DEF Deliver, BodyRead, Hand, Shorter
  <2>2. TypeOK'
    BY <1>1, <2>1
  <2>3. Accounted'
    BY <1>1, <2>1
  <2>4. Followed'
    BY <1>1, <2>1
  <2> QED BY <2>2, <2>3, <2>4
<1> QED BY <1>2, <1>3 DEF ReadInto

(* The accounts are right in every reachable state.                        *)
THEOREM Invariance == Spec => []Inv
<1>1. Inv /\ [Next]_vars => Inv'
  <2> SUFFICES ASSUME Inv, [Next]_vars PROVE Inv'
    OBVIOUS
  <2>1. CASE FileInput
    <3>1. /\ stage' \in {"valid", "rejected"}
          /\ stage' = "valid" => size \in 0 .. MaxFileBytes
      BY <2>1, FileAssumption DEF FileInput, Inv, TypeOK
    <3> QED BY <2>1, <3>1 DEF FileInput, Inv, TypeOK, Accounted, Followed
  <2>2. CASE Open
    BY <2>2, FileAssumption DEF Open, Inv, TypeOK, Accounted, Followed
  <2>3. CASE Read
    BY <2>3, ReadInv DEF Read
  <2>4. CASE Close
    BY <2>4 DEF Close, Inv, TypeOK, Accounted, Followed
  <2>5. CASE UNCHANGED vars
    BY <2>5 DEF vars, Inv, TypeOK, Accounted, Followed
  <2> QED BY <2>1, <2>2, <2>3, <2>4, <2>5 DEF Next
<1> QED BY <1>1, InitInv, PTL DEF Spec

(* The type invariant: neither the count of what is still to come nor that *)
(* of what has come leaves its range, whatever the server sends.           *)
THEOREM TypeCorrect == Spec => []TypeOK
<1>1. Inv => TypeOK
  BY DEF Inv
<1> QED BY <1>1, Invariance, PTL

(* The executor never receives more than SizeBytes, and a clean end means  *)
(* exactly SizeBytes (file.go:54-55).                                      *)
THEOREM SizeIsExact == Spec => []ExactSize
<1>1. Inv => ExactSize
  BY DEF Inv, TypeOK, Accounted, ExactSize
<1> QED BY <1>1, Invariance, PTL

(* A file whose link serves another number of bytes does not end cleanly   *)
(* before a Read has failed, as long as the probe is answered.             *)
THEOREM ChangeIsNoticed == Spec => []ChangeNoticed
<1>1. Inv => ChangeNoticed
  <2> SUFFICES ASSUME Inv, last = "eof", ~noticed, ~silent PROVE total = size
    BY DEF ChangeNoticed
  <2>1. stage \in {"open", "closed"} /\ served = got /\ served = total /\ remaining = 0
    BY DEF Inv, TypeOK, Accounted, Followed
  <2> QED BY <2>1 DEF Inv, TypeOK, Accounted
<1> QED BY <1>1, Invariance, PTL
=============================================================================
