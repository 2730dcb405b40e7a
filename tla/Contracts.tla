------------------------------ MODULE Contracts ------------------------------
(* Contract-bound clients: defineContract, runtimeGraph and                   *)
(* freezeReachableDescriptors of web/src/contracts.ts, the finalizer of       *)
(* web/src/strict-client.ts and the hooks of web/src/interceptors.ts.         *)
(*                                                                            *)
(* Descriptors are objects that the application may change until they are     *)
(* frozen; two objects may bear one type name.  Names are model values.  An   *)
(* array that the code sorts by a unique key is a function of that key, so    *)
(* that comparing canonical JSON is comparing values.                         *)
EXTENDS Naturals, Sequences, FiniteSets, Functions

CONSTANTS
    Message, Enum,         \* descriptor objects
    Own, Foreign, Forged,  \* methods: of the service, of another one, and ones
                           \* that name the service as parent but are not its own
    Service,               \* the service descriptor
    Heaps,                 \* the descriptors as generated
    Names, Defaults,       \* type names; defaults of fields
    Timeouts,              \* of calls; 0 is none
    MaxTime, MaxChanges    \* bounds: the clock, changes of descriptors and requests

Method == Own \union Foreign \union Forged

ASSUME ContractsAssumption ==
    /\ Timeouts \subseteq Nat /\ MaxTime \in Nat /\ MaxChanges \in Nat
    /\ Own \intersect (Foreign \union Forged) = {} /\ Foreign \intersect Forged = {}

VARIABLES
    source,    \* the descriptors the contract was generated from
    heap,      \* the descriptors as they are
    frozen,    \* the objects that are frozen, with their fields, values and lists
    contract,  \* the record of the contract: its state and its graph
    now,       \* the time since the call began
    changes,   \* how often a descriptor or a request was changed
    call,      \* the call whose hooks run: its request as they have left it
    sent       \* what the last use of next came to

vars == <<source, heap, frozen, contract, now, changes, call, sent>>

NoCall == [method |-> Service, service |-> Service, stamp |-> "none", timeout |-> 0, deadline |-> 0]
NothingSent == [method |-> Service, stamp |-> "nothing", timeout |-> 0, at |-> 0]
NoGraph == [methods |-> <<>>, messages |-> <<>>, enums |-> <<>>]

----------------------------------------------------------------------------
(* The projection *)

\* MUTANT: an element of a list refers to nothing.
ReferencedTypesSingular(field) ==
    IF field.kind \in {"single", "map"} THEN <<field.type>> ELSE <<>>

\* The types of singular fields, list elements and map values.
referencedTypes(field) ==
    IF field.kind \in {"single", "list", "map"} THEN <<field.type>> ELSE <<>>

\* A method's input and output, method by method.
MethodTypes(h) ==
    [i \in 1 .. 2 * Len(h.methods) |->
        LET io == h.io[h.methods[(i + 1) \div 2]] IN IF i % 2 = 1 THEN io.input ELSE io.output]

FieldTypes(h, m) == FoldFunction(LAMBDA field, types : referencedTypes(field) \o types, <<>>, h.fields[m])

\* visitMessage of runtimeGraph: depth first, by name.  The first message of a
\* name is the one that counts, and the last enum.
RECURSIVE Visited(_, _, _)
Visited(h, todo, seen) ==
    IF todo = <<>> THEN seen
    ELSE LET type == Head(todo)
             same == {o \in seen : h.name[o] = h.name[type]}
         IN CASE type \in Enum -> Visited(h, Tail(todo), (seen \ (same \intersect Enum)) \union {type})
              [] type \in Message /\ same \intersect Message # {} -> Visited(h, Tail(todo), seen)
              [] OTHER -> Visited(h, FieldTypes(h, type) \o Tail(todo), seen \union {type})

\* JSON has no negative zero and no NaN: they become strings.
fieldDefault(field) ==
    CASE field.kind \in {"list", "map"} \/ field.default = "none" -> <<"null">>
      [] field.default \in {"-0", "NaN"} -> <<"number", "string", field.default>>
      [] OTHER -> <<"number", field.default>>

fieldGraph(h, field) ==
    [kind    |-> field.kind,
     type    |-> IF field.kind = "scalar" THEN "none" ELSE h.name[field.type],
     message |-> field.type \in Message,
     default |-> fieldDefault(field)]

enumGraph(values) ==
    [default |-> Head(values),
     values  |-> [n \in {v.number : v \in Range(values)} |-> SelectSeq(values, LAMBDA v : v.number = n)]]

runtimeGraph(h) ==
    LET types == Visited(h, MethodTypes(h), {})
        Of(kind, n) == CHOOSE o \in types \intersect kind : h.name[o] = n
        NamesOf(kind) == {h.name[o] : o \in types \intersect kind}
    IN [methods  |-> [m \in Range(h.methods) |-> <<h.name[h.io[m].input], h.name[h.io[m].output]>>],
        messages |-> [n \in NamesOf(Message) |->
                        LET fields == h.fields[Of(Message, n)]
                        IN [k \in {f.number : f \in Range(fields)} |->
                              fieldGraph(h, CHOOSE f \in Range(fields) : f.number = k)]],
        enums    |-> [n \in NamesOf(Enum) |-> enumGraph(h.values[Of(Enum, n)])]]

----------------------------------------------------------------------------
(* Defining the contract, when its module is loaded *)

\* freezeReachableDescriptors visits by identity.
RECURSIVE Reached(_, _, _)
Reached(h, todo, seen) ==
    IF todo = <<>> THEN seen
    ELSE LET type == Head(todo)
         IN IF type \in seen THEN Reached(h, Tail(todo), seen)
            ELSE Reached(h, (IF type \in Message THEN FieldTypes(h, type) ELSE <<>>) \o Tail(todo), seen \union {type})

\* MUTANT: the enums are left out.
FreezeMessages(h) == (Reached(h, MethodTypes(h), {}) \ Enum) \union Range(h.methods) \union {Service}

freezeReachableDescriptors(h) == Reached(h, MethodTypes(h), {}) \union Range(h.methods) \union {Service}

Init ==
    /\ source \in Heaps /\ heap = source
    /\ frozen = {}
    /\ contract = [state |-> "loading", graph |-> NoGraph]
    /\ now = 0 /\ changes = 0
    /\ call = NoCall /\ sent = NothingSent

\* A mismatch throws before anything is frozen or registered, and the module
\* that was being loaded never has a contract.
defineContract ==
    /\ contract.state = "loading"
    /\ LET actual == runtimeGraph(heap)
       IN IF runtimeGraph(source) # actual
          THEN contract' = [contract EXCEPT !.state = "refused"] /\ UNCHANGED frozen
          ELSE /\ frozen' = freezeReachableDescriptors(heap)
               /\ contract' = [state |-> "defined", graph |-> actual]
    /\ UNCHANGED <<source, heap, now, changes, call, sent>>

\* What the application may make of an object.
ChangedMessage(o) ==
    {[heap EXCEPT !.fields[o][i].default = d] : i \in DOMAIN heap.fields[o], d \in Defaults}
    \union {[heap EXCEPT !.fields[o] = <<>>]}
    \union {[heap EXCEPT !.fields[o][i].type = m] :
              i \in {j \in DOMAIN heap.fields[o] : heap.fields[o][j].type \in Message}, m \in Message}
    \union {[heap EXCEPT !.name[o] = n] : n \in Names}

ChangedEnum(o) ==
    {[heap EXCEPT !.values[o] = [i \in DOMAIN @ |-> @[Len(@) + 1 - i]]],
     [heap EXCEPT !.values[o] = Tail(@) \o <<Head(@)>>]}

ChangedService == {[heap EXCEPT !.methods = Append(@, r)] : r \in Forged \ Range(heap.methods)}

ChangedMethod(o) == {[heap EXCEPT !.io[o].output = m] : m \in Message}

\* Application code changes a descriptor; a frozen one stays as it is.
Change ==
    /\ changes < MaxChanges
    /\ \/ \E o \in Message \ frozen : heap' \in ChangedMessage(o)
       \/ \E o \in Enum \ frozen : heap' \in ChangedEnum(o)
       \/ \E o \in Own \ frozen : heap' \in ChangedMethod(o)
       \/ {Service} \intersect frozen = {} /\ heap' \in ChangedService
    /\ heap' # heap
    /\ changes' = changes + 1
    /\ UNCHANGED <<source, frozen, contract, now, call, sent>>

----------------------------------------------------------------------------
(* A call of a bound client *)

parent(m) == IF m \in Foreign THEN "other" ELSE Service

\* interceptTransport: the deadline is fixed before the first hook runs.
Start(m, timeout) ==
    /\ contract.state = "defined" /\ call = NoCall
    /\ call' = [method |-> m, service |-> parent(m), stamp |-> "none", timeout |-> timeout,
                deadline |-> IF timeout > 0 THEN now + timeout ELSE 0]
    /\ UNCHANGED <<source, heap, frozen, contract, now, changes, sent>>

\* A hook puts something else into the request before it calls next.
Hook(m, service, stamp) ==
    /\ call # NoCall /\ changes < MaxChanges
    /\ call' = [call EXCEPT !.method = m, !.service = service, !.stamp = stamp]
    /\ changes' = changes + 1
    /\ UNCHANGED <<source, heap, frozen, contract, now, sent>>

Tick ==
    /\ call # NoCall
    /\ now < MaxTime /\ now' = now + 1
    /\ UNCHANGED <<source, heap, frozen, contract, changes, call, sent>>

\* MUTANT: the parent is enough.
AdmitsByParent(request) == request.service = Service /\ parent(request.method) = Service

\* contractFinalizer's guard.
Admits(request) ==
    /\ request.service = Service
    /\ parent(request.method) = Service
    /\ request.method \in Range(heap.methods)

\* MUTANT: the timeout the call began with.
RemainingStale(request) == request.timeout

\* What is left of the timeout, and at least a millisecond.
Remaining(request) ==
    CASE request.deadline = 0 -> request.timeout
      [] request.deadline > now -> request.deadline - now
      [] OTHER -> 1

\* MUTANT: a stamp the request bears already is kept.
StampedOnce(stamp) == IF stamp = "none" THEN "contract" ELSE stamp

\* The header is deleted, then set.
Stamped(stamp) == "contract"

\* next of the innermost hook: the finalizer, then the transport below.  A hook
\* may use it again, after a failure as well.
Forward ==
    /\ call # NoCall
    /\ sent' = IF Admits(call)
               THEN [method |-> call.method, stamp |-> Stamped(call.stamp), timeout |-> Remaining(call), at |-> now]
               ELSE [NothingSent EXCEPT !.stamp = "rejected"]
    /\ UNCHANGED <<source, heap, frozen, contract, now, changes, call>>

Finish ==
    /\ call # NoCall /\ call' = NoCall
    /\ sent' = NothingSent /\ now' = 0
    /\ UNCHANGED <<source, heap, frozen, contract, changes>>

----------------------------------------------------------------------------

Next ==
    \/ defineContract
    \/ Change
    \/ \E m \in Own, timeout \in Timeouts : Start(m, timeout)
    \/ \E m \in Method, service \in {Service, "other"}, stamp \in {"none", "forged"} : Hook(m, service, stamp)
    \/ Tick
    \/ Forward
    \/ Finish

Spec == Init /\ [][Next]_vars

----------------------------------------------------------------------------
(* What is promised *)

Field == [number : 1 .. 2, kind : {"scalar", "single", "list", "map"},
          type : Message \union Enum \union {Service}, default : Defaults]

\* Every variable has its type: the state of the module, of a call and of what
\* next came to, and every frozen object is a descriptor.
TypeOK ==
    /\ \A m \in Message : Range(heap.fields[m]) \subseteq Field
    /\ frozen \subseteq Message \union Enum \union Method \union {Service}
    /\ contract.state \in {"loading", "defined", "refused"}
    /\ now \in 0 .. MaxTime /\ changes \in 0 .. MaxChanges
    /\ call = NoCall \/ call \in [method : Method, service : {Service, "other"}, stamp : {"none", "forged"},
                                  timeout : Timeouts, deadline : Nat]
    /\ sent \in [method : Method \union {Service}, stamp : {"nothing", "rejected", "contract"},
                 timeout : Nat, at : 0 .. MaxTime]

\* Once defineContract has returned, the graph of the service is the graph that
\* was compared, whatever the application does to descriptors: the finalizer may
\* stamp without building it again.  It holds although the graph is visited by
\* name and frozen by identity.
GraphPinned == contract.state = "defined" => runtimeGraph(heap) = contract.graph

\* The types that the methods reach, by closing the references of all fields.
Refers(h, o) == IF o \in Message THEN {f.type : f \in Range(h.fields[o])} \intersect (Message \union Enum) ELSE {}
Reachable(h) ==
    LET start == {h.io[m].input : m \in Range(h.methods)} \union {h.io[m].output : m \in Range(h.methods)}
        all == Message \union Enum
        reach[n \in 0 .. Cardinality(all)] ==
            IF n = 0 THEN start ELSE reach[n - 1] \union UNION {Refers(h, o) : o \in reach[n - 1]}
    IN reach[Cardinality(all)]

\* What of a descriptor can be told apart on the wire and in JSON.
Telling(h, o) ==
    IF o \in Enum THEN <<Head(h.values[o]), [n \in {0, 1} |-> SelectSeq(h.values[o], LAMBDA v : v.number = n)]>>
    ELSE {[f EXCEPT !.type = IF f.kind = "scalar" THEN f.type ELSE h.name[f.type],
                    !.default = IF f.kind \in {"list", "map"} THEN "none" ELSE f.default] : f \in Range(h.fields[o])}
Declared(h) ==
    <<Range(h.methods), {<<m, h.name[h.io[m].input], h.name[h.io[m].output]>> : m \in Range(h.methods)},
      {<<o \in Enum, h.name[o], Telling(h, o)>> : o \in Reachable(h)}>>

UniqueNames(h) ==
    \A kind \in {Message, Enum} : \A o, p \in Reachable(h) \intersect kind : h.name[o] = h.name[p] => o = p

\* A contract that is defined describes the descriptors exactly: where type names
\* are unique, every message and enum that the methods reach, through singular,
\* list and map fields, is the one the contract was generated from, down to
\* defaults that JSON cannot write.
ContractExact ==
    contract.state = "defined" /\ UniqueNames(source) /\ UniqueNames(heap) => Declared(heap) = Declared(source)

\* Whatever the hooks leave in the request, and whatever was pushed into the
\* method list, what goes out bears the contract's stamp and is a call of a
\* method that the contract was generated with.
StampedIsOwn == sent.stamp \notin {"nothing", "rejected"} => sent.stamp = "contract" /\ sent.method \in Range(source.methods)

\* Hooks take time, and may use next again: the timeout that the transport below
\* is given never reaches past the deadline the call began with, but for the
\* millisecond that a call without time left is given.
DeadlineKept ==
    call.deadline > 0 /\ sent.stamp = "contract" =>
        sent.timeout > 0 /\ (sent.timeout = 1 \/ sent.at + sent.timeout <= call.deadline)
=============================================================================
