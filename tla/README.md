# A TLA+ development of the Axiom skills SDK

This directory models the Go SDK in `src/`: the library a *Skill* (a gRPC server
that executes node types for a platform) is written with. The modules are read
beside the code they name; `PROJECT.json` maps every definition to the lines it
stands for, lists the hazards of the code and the runs, and names the theorems.

## 1. The system

| Part | Source | State | Operations |
|------|--------|-------|------------|
| Per-call operator config | `config/spec.go` | the declaration (fixed), an LRU cache of decoded configs: map, list, mutex, size | `NewSpec`, `Bind` (`decodeCall`), `From`, `Check`, `HasCheck`, `Schema` |
| Config declaration and decoding | `config/schema.go` | none after `declare`; one struct, one map of effective values and a list of errors while it decodes | `declare`, `declareField`, `parseText`, `decode`, `check`, `set`, `decodeInto`, `defaultsOf` |
| Secret values | `config/secret.go` | an immutable string | `NewSecret`, `Reveal`, redacting formatters |
| Skill server | `grpc/server.go` | executors and schemas by node type (filled before `Serve`), the config runtime, the process's life | `NewSkillServer`, `RegisterExecutor`, `RegisterExecutorWithSchema`, `Execute`, `GetNodeTypes`, `GetNodeSchema`, `Health`, `Serve` |
| Chat files | `executor/file.go` | bytes that remain to be read | `FileInput`, `Open`, `exactReader.Read`, `Close` |
| Template resolver | `resolver/resolver.go` | the maps of one call | `ResolveString`, `ResolveMap`, `EvaluateCondition`, `SetVariable`, `SetStepOutput`, `ResolveConfig`, `TypedConfig` |
| Schema builder and generator | `resolver/resolver.go` | the schema being built | `NewSchemaBuilder` and its options, `GenerateSchema` |
| Kubernetes proxy client | `k8sclient/client.go` | none (an HTTP client) | `GetResource` ... `ScaleResource`, `doRequest`, `doRequestRaw` |
| Executor interfaces, manifest, dependencies | `executor/executor.go`, `skill/skill.go`, `deps/deps.go` | none | interfaces and records |

**How they interact.** The platform calls `Execute` with a node type, arguments and
an execution context that carries a tenant, a config document and its version. gRPC
serves every call on a goroutine of its own. `Execute` looks the executor up, makes a
resolver for this call only, has `Bind` decode the document (through the cache that
all goroutines share) and runs the executor, which reads its config with `From`, its
arguments through the resolver and its files through `File.Open`. `Health` reports the
declared schema and may run the Skill's config check. `Serve` starts a goroutine that
turns a termination signal into a `GracefulStop`.

**What is hard, and what must be right.**

* The cache releases its mutex while a document is decoded. Between the two critical
  sections other goroutines store the same key, another version of the tenant, or evict.
  Right means: a call is never answered another tenant's or another version's config, a
  failed decode is nobody else's, the map and the list stay the same set, the bound holds,
  entries leave only for a reason, and every path gives the mutex back.
* Decoding is two loops with early continues over defaults, nulls, host-only fields and
  conditions on other fields. Right means that it agrees with what a reader of the
  *reported* schema expects, that what an executor receives satisfies the declared
  constraints, and that no error prints a secret.
* The file reader must tell "the last byte", "the end" and "one byte too many" apart for
  every way in which `io.Reader` is allowed to report them.
* The resolver reads its own output again after each replacement. Right means that this is
  the substitution the author of a text expects, that it ends, and that a condition is
  decided by its own sign, as long as the values bring no templates of their own.
* A step's arguments are read twice over, by `ResolveConfig` into a struct and by
  `TypedConfig`, and the struct's tags are read a third time to tell the platform about
  them. Right means that the three agree, that what the platform lets a user enter is
  accepted, and that no argument brings an executor down.
* The Kubernetes client asks a proxy that may answer late, in part or not at all. Right means
  that a request takes effect once at most, that success means it has, and that an error
  tells the executor as much as can be known about whether it has.
* The server's life: calls that arrive while it is being told to stop, a signal before the
  goroutine asks for signals or before `grpcServer.Serve`, executors that panic or never
  return, a config check that panics.

## 2. Modules

| Module | Models | Role |
|--------|--------|------|
| `ConfigCalls` | `Call`, `cacheKey`, `Spec.Decode` as a function | constants and pure operators shared below |
| `ConfigService` | what `Bind` promises, with no cache | abstract specification |
| `ConfigCache` | `decodeCall`, one action per stretch between lock operations and per loop round | implements `ConfigService` |
| `ConfigCacheProofs` | | theorems on `ConfigCache` |
| `ConfigSchema` | `declare`, `declareField`, `parseText`, `check` | pure operators |
| `ConfigDecode` | `decodeInto` as a state machine over its two loops; `NewSkillServer`'s panic | uses `ConfigSchema` |
| `ConfigDecodeProofs` | | theorems on `ConfigDecode` |
| `FileReader` | `FileInput`, `Open`, `exactReader` and the HTTP body | |
| `FileReaderProofs` | | theorems on `FileReader` |
| `SkillServer` | the process: options, registration, `Serve`, signals, `Execute`, `Health` | composes `ConfigService` (as `Service`) for `Bind` |
| `SkillServerProofs` | | theorems on `SkillServer` |
| `Resolver` | `ResolveString` as a loop, the lookup of paths, `EvaluateCondition`, the setters | |
| `ResolverProofs` | | theorems on `Resolver` |
| `TypedConfig` | `ResolveConfig` as a loop over the fields, `setFieldValue` and its conversions, `ResolveMap`, `GenerateSchema`, `TypedConfig`'s accessors | uses `ResolveString` by its promise |
| `TypedConfigProofs` | | theorems on `TypedConfig` |
| `ProxyCalls` | what a call of the Kubernetes client promises: one effect at one moment | abstract specification |
| `ProxyClient` | the methods of `Client`, `doRequest`, `doRequestRaw`; the proxy and the network | implements `ProxyCalls` |
| `ProxyClientProofs` | | theorems on `ProxyClient` |
| `Recursion` | | lemmas on recursive functions over an interval, for the proofs |
| `MC*` | | constants and bounds for TLC |

### Correspondence

**`ConfigCache`.** `pc[c]` is the point a goroutine has reached in `decodeCall`: `called`
(before the first `Lock`), `lookup` (first critical section), `decode` (no lock held),
`store` (before the second `Lock`), `recheck`, `purge` and `evict` (second critical
section), `done` (returned to `Bind`). `mu` holds the owner of the mutex. `cache` is the
map followed through the element to the decoded value, `lru` is the list of keys, front
first. That both are kept as separate variables is what makes "the map and the list agree"
something that can fail. `PurgeOne` is a round of the loop at `spec.go:133` that removes
something; the rounds that remove nothing are not steps. The list operations are
`container/list`'s as far as `decodeCall` uses them.

`current[t]` is the platform's side: the version of a tenant's effective config. A call
carries the version that is current when it arrives (or none), and a document out of
`Sends[<<tenant, version>>]`. `Sends` may hold several documents: `skill.proto` says that
the version changes whenever the config does, which the module calls `Determined`; what
depends on that promise is stated with it, and the runs include a tenant for which it is
broken.

**`ConfigService`** answers a call in one step, with the decode of its own document or the
successful decode of a document sent under the very same tenant and version.

**`ConfigSchema` and `ConfigDecode`.** A struct is a sequence of fields, a field a record
of its tags. `Declaration` gives both what `Health` reports (`requiredWhen` as a map) and
what `decodeInto` reads (`when`, a list): they are built apart in the code and are apart
here. A document maps keys to typed values, `null` included. Numbers are integers or a
fraction; `Width` and `Wrapped` are the range of the Go type and what `reflect.SetInt`
keeps. `int8` stands for the narrow types, `int64` for the wide ones. `Overlay` and
`Require` are one round of the two loops, `at` is the loop's index. `effective` is what the second
loop judges conditions by, `dst` what the executor gets; they are filled side by side, and
`ConditionsReadDelivered` says that they agree when the second loop begins.

**`FileReader`.** Bytes are counted. `BodyRead(want, n, err)` is all that `io.Reader` allows
the body to do, `Probe` and `Deliver` are the two halves of `exactReader.Read`. `silent`
and `noticed` are history variables that the guards never read.

**`SkillServer`.** `process` is the life of the process, `watcher` the goroutine of
`Serve`, `pending` the one place of `sigCh`, `streams` whether connections still take
calls (`GracefulStop` first sends clients away, then waits). `stage[c]` is where a
goroutine is in `Execute` (`lookup`, `bind`, `execute`) or `Health` (`health`, `check`), then
`reply`. `Bind` is a step of `Service!Answer`; that `decodeCall` implements this step is
`CacheImplementsService`. The answer of `Health` carries, beside what is sent, the status that the
check gave itself (`named`): no guard reads it, it lets `HealthTells` say what the stored status
has to be. Arguments, output and the resolver's maps are made for one call
from that call's request and are not modelled. Registration is possible before `Serve`
only: the maps are unprotected, so this is how the SDK must be used.

**`Resolver`.** One action, `Replace`, is one turn of the loop in `ResolveString`; `Return` is
its break, after which `EvaluateCondition` decides. A text is a sequence of characters in
which a word counts as one. Values keep the difference between a nil interface (replaced by
nothing) and a nil map inside one (replaced by `null`); a map carries the JSON that
`encoding/json` writes for it, since those braces are read again as well. `used` is a history
variable: the texts a call has put in, which the properties' conditions are about.
`Values` is every value that can be reached from the sources and what is set. `SplitPath` and the
JSON of a map are recursive functions over a text and over the order of keys.
`ResolvesOnce` compares the loop with `Substituted`, one pass that never reads a value again.
`MaxLength` stops a text that feeds itself; a call stopped there without such a value would
violate `EndsUnlessFed`. `EachTurnUsesUp` is the reason it ends: the closing braces that are left go down.

**`TypedConfig`.** `at` is the loop's index, `dst` the struct as it is filled, `Skip` a round
without an argument or a default, `SetField` a round of `setFieldValue`: it stores, keeps the
field, fails or panics, and unexported fields panic only when something is stored. A text is
what the conversions look at: its word in lower case, whether blanks stand around it, the
number it begins with, whether it holds a template. A map is flat, from paths to what is no
map. A kind stands for those that the code treats alike: `binding` for `Binding` and `Expr`,
`int64` for `int`, `float` for `float64`; of the kinds that no case names there are `int16`, for
numbers that Go converts, and `array`, into which it converts a slice that is long enough and
panics on a shorter one. Integers are cut to `-Half .. Half - 1` in narrow fields. A float counts
halves, which a `float64` holds all of; a `float32` field keeps the nearest number of the set
`Float32`, or an infinity from `Limit` on (`Rounded`). Wide integer fields are never given more than
they hold. `GenerateSchema` keeps what a reader of the schema acts on: key, type, default, required.
`Plain` is a default tag without a template, without bits to cut off or to round, and without
another word for true than `true`; `DefaultsAsReported` says that such a default is delivered as it is
reported, and nothing of the others. What the documentation says of those is `MissingTakesDefault`,
which the code does not keep (section 4). `EnteredIsAccepted` says of a number that it is stored unchanged where
the field can hold it (`Holds`); what becomes of one that it cannot hold is modelled, and stated by
no document.

**`ProxyClient`.** A method is the request it makes: endpoint, kind, whether its patch has a
JSON form, what it does with the body. `phase` is where a call is: `asked` (in the method),
`waiting` (in `httpClient.Do`), `reading` (in the body), `gone` (panicked). `requests` and
`answers` are the network; a request leaves when the proxy carries it out or denies it, and
an answer finds the call only while it waits. `Interrupt` is everything that ends a call from
outside: no connection, a broken one, the caller's context, the `Timeout`. Lost requests and
crashed proxies are requests that wait for ever. `history` is the cluster: the changes in the
order they were made, by call; what a read shows is how long it was.

**`ProxyCalls`** has no network: a call takes effect in one step of its own, between its
beginning and its end. The refinement takes a request whose call has ended for one that is
`late`, and the five error texts for three fates: refused, settled, unknown.

## 3. Runs

| Run | Bounds | Question |
|-----|--------|----------|
| `cache_service` | 2 goroutines, 3 tenants, 2 versions, size 2 | Is every answer one a service without a cache could give (`Implements`, `Transparent`)? Does a goroutine that loses the race leave with the entry stored first (`ReturnsTheStored`)? Is every call answered (`EveryCallReturns`)? Do map and list agree, within the bound, with one version per tenant, and do entries leave only as the other version of their tenant or as the least recent (`RemovedForAReason`, `KeepsRecency`)? |
| `cache_replace` | 2 goroutines | finding 1 |
| `file_read` | sizes -1..4, links of 0..4 bytes, buffers 0..4, limit 3 | Does a clean end mean exactly the declared size, is a change noticed, does the read loop end? |
| `decode` | 200 structs of three fields, 140 documents | Does `decodeInto` agree with the reported schema (`SchemaDecides`), are conditions judged by what is delivered (`ConditionsReadDelivered`), are delivered values checked, are secrets kept out of errors? |
| `decode_default` | two structs | finding 2 |
| `server` | 2 goroutines, 2 tenants, 2 versions, one node type registered or not, checks of up to 2 rows | What do executors read (`ReadsOwnConfig`), what are calls answered (`ErrorTellsWhy`, `ToldIsExecutable`), what does `Health` say of the config check (`HealthTells`)? |
| `server_live` | 2 goroutines, 1 tenant | Does a signal that was taken end `Serve`, and is every call answered? |
| `server_check` | | finding 3 |
| `server_signal` | | finding 4 |
| `resolve` | 3 configurations, 38 texts, 13 values of a variable, 3 outputs of a step | Is the result one pass over the text (`ResolvesOnce`), does the loop end and why (`EndsUnlessFed`, `EachTurnUsesUp`), does a condition compare its own operands (`ComparesOperands`)? |
| `typed_config` | 284 structs of one field and of two, 133 sources, narrow integers of 4 bits, a `float32` of 15 numbers | Does a default arrive as it is reported (`DefaultsAsReported`), is what can be entered accepted (`EnteredIsAccepted`), is every text in fields and maps resolved (`NoTemplateLeft`), do the two readers agree (`AccessorsAgree`), and which structs are safe from their arguments (`NeverPanics`)? |
| `proxy` | 2 goroutines, of 2 calls and of 1, 9 requests, a good and a bad URL | Does a call take effect once at most and within it if it succeeds (`Implements`), what may an executor conclude from an error (`ErrorsTellTheFate`), does every call return (`CallsReturn`)? |

**Why the bounds are enough.** Two goroutines, each making any number of
calls, are enough for one that decodes while the other stores its
key and evicts it again with its next calls; the theorems hold for any number. Three tenants on
two places are the smallest instance in which the least recent of two entries has to be
told from the other and in which a used entry survives an older one. Two versions give an
old call that stores after a new one. Sizes up to three with links up to four cover the
empty file, one byte too few, exactly, one too many, and reads cut at every place. The
structs cover each type, each audience, each kind of requirement and both kinds of
condition; a third field lets a condition list name two others. In the server, calls
interact through the service, the registry and the life of the process, of which none
counts calls: two are enough for one that is held while the other moves. The resolver's texts
hold templates that are blank, unknown, unfinished, one inside another, side by side and
between lone braces; the values are empty, a brace of each kind, two, half a template, a
template of another value and of themselves, the signs of a comparison, and a map in a map.
A field of a struct is set without regard to the others, so that two suffice for one after
another that was set, kept or refused; the values are one of each shape, with numbers too
wide for a narrow field, numbers between two of a `float32` and beyond them, and a template in a
text, a map, a map of a map and a slice. Two calls of one goroutine and one of another are the smallest instance in which a call that was
abandoned takes effect after its caller's next one and after another's.

**Deadlock.** The cache runs check deadlock. `CHECK_DEADLOCK FALSE` is set where the system
really stops: a file that was rejected, never opened or closed; a server that panicked on
its declaration; a process that has ended; a text that has grown to the bound; a config that is
resolved; callers that have made their calls.

**Fairness.** `ConfigCache`: a goroutine that can run does (weak fairness of `Run`), and one
that waits for a mutex which is free again and again gets it (strong fairness of
`Acquire`): `sync.Mutex` hands itself to a waiter that has starved for a millisecond.
Nothing is assumed of callers or operators. `FileReader`: a read loop that has not ended
goes on and the link answers it; `Open` ties the transfer to the call's context, which bounds
how long it may stall. `Resolver`: the loop turns. `ProxyClient`: a method goes on until it
has sent, and the clock of its `Timeout`, which covers the body too, goes on; neither the proxy
nor the network need ever answer. `SkillServer`: the server's own
goroutines run and grpc ends its
wait for clients that do not hear the go-away; executors and checks are *not* assumed to
return. Instead `SignalEndsServe` and `CallsAreAnswered` have that as their antecedent
(`SkillReturns`), because nothing in the code bounds them.

## 4. Findings

1. `cache_replace` (`NewVersionReplacesOld`): README.md:604-605 says that a tenant's new
   version replaces its old entry. The purge at `spec.go:132-140` removes every entry of
   the tenant, so a slow call of version 1 replaces the cached version 2 by version 1. No
   wrong config is answered (`Transparent`), the newer one is decoded again.
2. `decode_default` (`MissingTakesDefault`): a default outside the range of its Go integer
   type is declared and reported, and delivered with its high bits cut off
   (`schema.go:436`, `:511`), against README.md:595 "Missing or null keys take their declared
   default". A *delivered* value out of range is refused (`schema.go:464`).
3. `server_check` (`CheckIncluded`): a config check that panics is recovered and made into
   a failed row, but the named result `ok` stays false (`spec.go:204-210`), so `Health` leaves the
   row out; `spec.go:58-59` reserves `ok = false` for a check that is not declared.
4. `server_signal` (`SignalLosesNoCall`): `signal.Notify` is called by the goroutine that
   `Serve` starts, which may run after the first calls were accepted; a signal in between
   ends the process at once, under the comment "Handle graceful shutdown" (`server.go:297`).

Three more statements of the repository's texts are not kept. They are properties of the modules, each
refuted by TLC with a cfg of its own, which is not among the listed runs:

* `ReportedConditionsEnforced` (`tlc -config MCConfigDecodeCondition.cfg MCConfigDecode`): the comment
  at `schema.go:123` says that the list of conditions is "RequiredWhen in declaration order". Two
  conditions on one key are two in the list and one in the map (`schema.go:216-217`):
  `mode=a,mode=b` is reported as `mode=b` and never required.
* `MissingTakesDefault` of `TypedConfig` (`tlc -config MCTypedConfigDefault.cfg MCTypedConfig`):
  README.md:519 says of the `default` tag "Default value if field is missing". For an `int16`, and
  every other integer kind that `setFieldValue` has no case for, the tag is dropped without an error
  (`resolver.go:357-363`), though `GenerateSchema` reports it.
* `AllFieldsResolved` (`tlc -config MCTypedConfigResolved.cfg MCTypedConfig`): README.md:368 says "All
  fields are typed and resolved!" of a struct with a slice; strings in slices keep their templates
  (`resolver.go:344-352`, `:79`).

## 5. Proofs

Everything below holds for all values of the constants allowed by the named assumptions
(`CallsAssumption`, `SizeAssumption`, `SchemaAssumption`, `DecodeAssumption`, `FileAssumption`,
`ServerAssumption`, `ResolverAssumption`, `ConfigAssumption`, `ClientAssumption`): any number of
goroutines, tenants, versions, node types, any cache size from one up, any file size, any number
of rows of a check and of requests, structs, documents, texts and configurations of any size.
Every safety property and every action property that a passing run checks is a theorem here, some
under a condition that is named below, and so are the two refinements.

**`ConfigCacheProofs`.** The properties are not inductive: that the map and the list agree
after `Push` needs that the key was in neither, which is known from `recheck` three steps
earlier and only because no other goroutine has held the mutex since. `Inv` therefore adds

* `CallsSent`: the document of a call in progress is one the platform sends for its key;
* `MutexHeld`: a goroutine is at a point of a critical section exactly when it holds the mutex;
* `ResultsAllowed`: what a goroutine holds as result or about to store is `Service!Allowed`;
* `CachedSent`: a cached config is the decode of a document sent under its key;
* `StoreInProgress`: while a goroutine purges, its key is in neither; while it evicts, its
  key is at the front and cached with the config it will return, and the list is at most
  one over.

The lemmas on `Remove`, `PushFront` and `MoveToFront` say what each does to a list without
repeats and to the order of its keys; there is one preservation lemma per part of `Inv`, with
a step per action. `TypeCorrect`, `CacheCoherent`, `OneVersionCached`, `CacheBounded`,
`CacheTransparent`, `StoredIsReturned`, `RemovalJustified` and `RecencyKept` follow.
`CacheImplementsService` maps the initial state and every step to `ConfigService`: the step that
reaches `done` is `Answer`, `Publish`, `Ask` and `Return` are themselves, all else stutters.

**`ConfigDecodeProofs`.** `Inv` follows the two loops field by field. `Kept(i)`: a field that the
first loop has passed and not refused holds, in the effective values and in the struct, what its
value or default is stored as. `Reported(found)`: the errors are those of the fields found wrong
so far, all and only. `Shown`: a value in an error is that of a field of the document which is no
secret, or one a condition declares. Keys differ because `Declares` refuses a struct otherwise.
`SecretsKept` follows without more. Three theorems carry a condition, each the
boundary at which the code stops doing what the property says: `DeliveryChecked` and
`ConditionsAgree` need `DefaultsFit` (finding 2), `SchemaDecided` also `ConditionsDiffer`, since
`schema.go:217` reports the last of two conditions on a key while the decode asks for both (end of
section 4). `ConditionsAgree` rests on `AllKept`: once the first loop has passed all fields without an error,
each is `Kept`, so that what is stored and what conditions read is one value unless storing cuts it. The
structs of the `decode` run meet the two conditions. `SecretsNeverShown` excepts what any field's condition
declares: a `requiredWhen` on a secret's own value is in the schema for all to read.

**`FileReaderProofs`.** `Inv` adds the accounts (`got + remaining = size` while open) and, while
nothing went wrong, `served = got`. `TypeCorrect`, `SizeIsExact` and `ChangeIsNoticed` follow.

**`SkillServerProofs`.** `Inv` says what is known of a call at each stage and that registry
and `told` are complete before the first call, so that a lookup's result stays right until
the answer is sent. `OwnAnswer` reduces what the service may answer to the decode of the
call's own document when its version determines it. From it `ExecutorsReadTheirOwn`,
`ErrorsTellWhy` and `ToldCanBeExecuted`. `HealthInv` adds what is known of a
`Health` call: a check runs only when it was wanted and the values decoded, and an answer has a
check only when it was wanted, a failed one where the values did not decode, and the status of an answered check is the one it
named, or what `Derived` makes of its rows (`NamedJudged`). The status of rows without one named is a fold, written as a
recursive function (`Derived`); `DerivedIsWorst` proves that it is the worst of the rows, for any
number of them. Values that do not decode give the one row `fail` whatever `MaxRows` is, so that
`Checks` has it apart. `TypeCorrect` and `HealthAnswers`, which speaks of the stored status, follow.

**`ResolverProofs`.** `Typing` says that texts stay texts and that what the sources hold stays
values: what `SplitPath`, `GetNestedValue`, `TrimSpace`, `Json` and `Put` return is typed by
induction over their recursion (`TypingInvariant`).

`ResolvesOnce` is not inductive: it speaks of the end, and the loop begins at the first character
again each time. `Loop` says what is true in between, while no value begins a template: there are
a finished text `pre`, which begins no template even with what follows it, and a place `i`
such that the result is `pre` and the rest of the call's text from `i` on, and the one pass of
`Substituted` from the first character gives `pre` and what it gives from `i`. A turn finds its
template in the rest (`TemplateShifts`), adds what is before it and the value to `pre`, and moves
`i` behind it (`LoopGoesOn`); when none is left, the rest is what the pass gives (`LoopEnds`). That the pass is
the recursive function it is written as takes existence (`FromExists`, by `FromLater`) and
uniqueness (`FromOnce`, by `DownTo`). `ReplacesEachOnce` follows.

For `ComparesOperands`, `Loop` also keeps the places that the pass comes by, and that the values put in
there are among `used`. `FromJoins`: where a left part cannot begin a template, two texts put
together are replaced as each is alone. `FromWithout`: what is replaced holds no equals sign if
neither the text nor the values used do. So the result is the left side's outcome, the sign, the right
side's outcome (`SidesApart`), the sign is found where it stands (`SignFound`), and
`ComparesAsWritten` follows with `Judged`, which ties the verdict to the result.

`TurnsAreCounted` proves `EachTurnUsesUp`, the count behind `EndsUnlessFed`: a turn cuts the two
closing braces of its template out (`CountOfTemplate`) and a value that feeds nothing brings in one at
most (`CountOfValue`), so the closing braces that are left go down, whatever the text and the paths
are. What is not proved of `EndsUnlessFed` is the temporal step from there.

`Recursion` has the inductions: over the numbers to a bound, up and down, stated for sets of
numbers so that they need no operator as a parameter, and the existence of a function
that is defined from the value before or from one at a later place.

**`ProxyClientProofs`.** That success means the change was made once is not inductive: an answer
is believed, so what is in the network must be known. `Inv` adds

* `RequestsSent`: a request under way is that of a call which waits, or of one that ended with
  `request`; there is one of a call, and what is under way was not carried out;
* `AnswersTrue`: an answer finds a call that waits or reads, whose request has left the network,
  and one that shows a change tells of one in `history`;
* `HistoryTrue`: `history` holds a call once, and none that ended before it was sent;
* `CallsTrue` and `UnreadTrue`: what is known of a call in each phase, of methods that read no
  body in particular.

`TypeCorrect` and `FateTold` follow. `ClientImplementsCalls` maps `Ask` to `Begin`; an unknown kind, a
request that cannot be made and the panic to `Refuse`; a success to `Succeed`; a bad status,
a body that does not decode or breaks off to `Settle`; an error of `httpClient.Do` to `Abandon`; `CarryOut` to
`TakeEffect` while the call waits and to `Late` afterwards. Sending, the arrival of a status and
a refusal by the proxy stutter.

**`TypedConfigProofs`.** `Inv` adds `Passed`: the fields the loop has passed hold what
`setFieldValue` makes of their argument or default, the others their zero value; and that a
struct of the kinds the code was written for (`Sturdy`) never reaches the panic. The lemmas say
what the conversions return: a text without a template, a map of such, a number that is the one
given where the field holds it. For a `float32` that is `RoundedSame`: the nearest number of
`Float32` to one of its own is that number.
`ArgumentsNeverPanic`, `AllResolved` and `SameByEitherWay` follow, and
`ReportedDefaults` and `EnteredAccepted` for structs whose keys differ (`KeysApart`): two fields
of one key are reported as one input and set from one argument. `ConfigAssumption` says that
what templates stand for holds no template; what happens otherwise is `Resolver`'s subject.

**Model-checked only.** Liveness (`EveryCallReturns`, `ReadLoopEnds`, `SignalEndsServe`,
`CallsAreAnswered`, `EndsUnlessFed`, `CallsReturn`): fairness and `ENABLED` are outside the prover. The
seven properties of section 4 are refuted by TLC.

**Delimited, not caught.** Some properties name an outcome as an exception, because no document
says that it may not happen: a `Serve` that an executor holds up for ever (`SkillReturns`), a `Serve`
that returns an error for an early signal, calls lost to another call's panic, a probe of a file
that fails, values with an equals sign in a condition, values that begin a template, structs with
fields that panic. The hazards in `PROJECT.json` say so where they apply.

## 6. Not modelled

* The spelling of tags, keys and scopes, labels, descriptions, summary flags and the JSON
  form of the schema: no decode looks at them.
* The redacting formatters of `Secret`: constant functions.
* Arguments, output and resolver context of `Execute`; JSON.
* `SchemaBuilder` and its options: each stores what it is given and none reads it. `IntOr`,
  `BoolOr`, `StringOr`, `Binding` and `Raw` of `TypedConfig`: an accessor and a fallback.
* Floats outside the range of an `int64`, whose conversion Go leaves to the processor; numbers
  with a fraction in texts.
* What the proxy's JSON holds, redirects, and the proxy's handling of a connection that is
  closed early. `doRequest` cannot fail to marshal: `mustMarshal` panics before.
* What `ResolveString` prints for a value that `json.Marshal` refuses (`resolver.go:59-61`).
* Kinds without a case other than `int16` and arrays of interfaces: structs, pointers, channels.
* Generated stubs, manifest records, dependency interfaces: no state of their own.
* Registration concurrent with `Serve`: a data race on Go maps, excluded by how the server is
  meant to be used.
* `StepResult.Error`, which `Execute` never reads: no document says what it means.
* grpc, `os/signal`, `container/list`, `sync` are external and modelled by how they are used.

## 7. Plan

1. *Done*: cache and service, file reader, decoding, server, resolver, typed config and proxy
   client, with every safety and action property of the passing runs and both refinements proved.
2. What `EveryCallReturns` and `ReadLoopEnds` count down, stated and proved as action properties
   the way `EachTurnUsesUp` is for `EndsUnlessFed`.
