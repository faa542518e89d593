--------------------------------- MODULE Hooks ---------------------------------
(***************************************************************************)
(* One hook of the hook registry: its ledger of registered handlers and the *)
(* calls of the hook, which run while handlers are added and removed.       *)
(*                                                                          *)
(* A call takes a snapshot of the ledger, sorted, and works through it:     *)
(* handlers that run before, the default handler or the one that replaces   *)
(* it, handlers that run after.  call() awaits every handler, so that two   *)
(* calls interleave; callSync() runs to its end on the stack.  The handlers *)
(* themselves, and any other code, register, unregister and call at will.   *)
(*                                                                          *)
(* The ledger is a Map from handlers to registrations: a set of records     *)
(* whose `place` is the position of the handler in the Map.  `serial`, the  *)
(* number of the on() call that made a registration, is not in the code:    *)
(* properties tell registrations apart with it.                             *)
(***************************************************************************)
EXTENDS Integers, Sequences, FiniteSets

CONSTANTS
    Handlers,         \* the handler functions
    DefaultHandler,   \* the default handler the code passes to its calls
    Calls,            \* the calls of the hook a behaviour may make
    Options,          \* the options handlers may be registered with
    MaxRegistrations  \* bound: how often on() may be called

Kinds == {"before", "replace", "after"}

ASSUME DefaultAssumption == DefaultHandler \notin Handlers
ASSUME OptionsAssumption ==
    Options \subseteq [kind : Kinds, once : BOOLEAN, priority : Int]
ASSUME BoundAssumption == MaxRegistrations \in Nat

VARIABLES
    ledger,      \* the registrations of the hook
    registered,  \* how often on() has been called
    stage,       \* stage[c]: the progress of call c
    sync,        \* sync[c]: c is a callSync()
    stack,       \* the calls on the JavaScript stack, the innermost first
    todo,        \* todo[c]: the registrations c has still to work through
    below,       \* below[c]: the replaced handlers under the main handler of c
    done,        \* done[c]: visit.done of the visit c was called with
    found,       \* history: the registrations c found in the ledger
    ran,         \* history: the handlers c has run, in order
    nested,      \* history: the handlers run through a replacing handler of c
    spent        \* history: the serials of once registrations that have run

vars == <<ledger, registered, stage, sync, stack, todo, below, done, found,
          ran, nested, spent>>

(* The default handler, which a call brings along itself. *)
Default ==
    [handler |-> DefaultHandler, kind |-> "default", once |-> FALSE,
     priority |-> 0, id |-> 0, place |-> 0, serial |-> 0]

-----------------------------------------------------------------------------
(* The ledger *)

(* A bug to detect: a list of registrations instead of a Map. *)
WithoutNone(h) == ledger

Without(h) == {r \in ledger : r.handler # h}

(* ledger.set(handler, ...): the id is the size of the ledger plus one; a
   handler that is in the Map already keeps its place there. *)
Registration(h, o) ==
    LET old == {r \in ledger : r.handler = h}
    IN  [handler |-> h, kind |-> o.kind, once |-> o.once,
         priority |-> o.priority,
         id |-> Cardinality(ledger) + 1,
         place |-> IF old = {} THEN registered + 1
                               ELSE (CHOOSE r \in old : TRUE).place,
         serial |-> registered + 1]

(* on(), and before(), replace() and once(), which only set an option. *)
On(h, o) ==
    /\ registered < MaxRegistrations
    /\ registered' = registered + 1
    /\ ledger' = Without(h) \cup {Registration(h, o)}
    /\ UNCHANGED <<stage, sync, stack, todo, below, done, found, ran, nested,
                   spent>>

(* off(hook, handler); the function on() returns does the same. *)
Off(h) ==
    /\ ledger' = Without(h)
    /\ UNCHANGED <<registered, stage, sync, stack, todo, below, done, found,
                   ran, nested, spent>>

(* off(hook) and hooks.clear(). *)
Clear ==
    /\ ledger' = {}
    /\ UNCHANGED <<registered, stage, sync, stack, todo, below, done, found,
                   ran, nested, spent>>

-----------------------------------------------------------------------------
(* The order of a call: before, main, after; then sortRegistrations(), which
   compares priorities and ids; Array.sort is stable. *)

Rank(r) == CASE r.kind = "before"  -> 1
             [] r.kind = "default" -> 2
             [] r.kind = "replace" -> 3
             [] r.kind = "after"   -> 4

(* A bug to detect: the smaller priority last. *)
SortedDescending(a, b) ==
    \/ b.priority < a.priority
    \/ a.priority = b.priority /\ a.id < b.id
    \/ a.priority = b.priority /\ a.id = b.id /\ a.place < b.place

Sorted(a, b) ==
    \/ a.priority < b.priority
    \/ a.priority = b.priority /\ a.id < b.id
    \/ a.priority = b.priority /\ a.id = b.id /\ a.place < b.place

Precedes(a, b) ==
    \/ Rank(a) < Rank(b)
    \/ Rank(a) = Rank(b) /\ Sorted(a, b)

Foremost(S) == {r \in S : \A q \in S \ {r} : Precedes(r, q)}
Topmost(S) == {r \in S : \A q \in S \ {r} : Precedes(q, r)}

OfKind(kind) == {r \in ledger : r.kind = kind}

Mains(hasDefault) ==
    IF hasDefault THEN {Default} \cup OfKind("replace") ELSE {}

(* The main handler: the last of those replacing the default handler, or else
   the default handler.  A call that brings none along runs no replacement. *)
Main(hasDefault) == Topmost(Mains(hasDefault))

-----------------------------------------------------------------------------
(* Calls *)

(* Synchronous code cannot be interrupted: only the innermost call proceeds. *)
Turn(c) ==
    /\ stage[c] = "running"
    /\ stack # <<>> => Head(stack) = c

(* call() and callSync(): getHandlers() takes the snapshot.  A call() leaves
   the stack at its first await: at once, or after the first handler that runs
   before, which it calls synchronously. *)
Begin(c, isSync, hasDefault) ==
    /\ stage[c] = "idle"
    /\ stage' = [stage EXCEPT ![c] = "running"]
    /\ sync' = [sync EXCEPT ![c] = isSync]
    /\ stack' = IF isSync \/ OfKind("before") # {} THEN <<c>> \o stack ELSE stack
    /\ todo' = [todo EXCEPT ![c] =
                   OfKind("before") \cup Main(hasDefault) \cup OfKind("after")]
    /\ below' = [below EXCEPT ![c] = Mains(hasDefault) \ Main(hasDefault)]
    /\ found' = [found EXCEPT ![c] = ledger]
    /\ UNCHANGED <<ledger, registered, done, ran, nested, spent>>

Await(c) == IF stack # <<>> /\ ~sync[c] THEN Tail(stack) ELSE stack

(* visit.done is read anew for every handler. *)
Skip(c) ==
    /\ Turn(c)
    /\ done[c]
    /\ \E r \in Foremost(todo[c]) : todo' = [todo EXCEPT ![c] = @ \ {r}]
    /\ stack' = Await(c)
    /\ UNCHANGED <<ledger, registered, stage, sync, below, done, found, ran,
                   nested, spent>>

(* A bug to detect: once handlers are not taken out. *)
KeepOnce(r) == ledger

TakeOnce(r) == IF r.once THEN Without(r.handler) ELSE ledger

(* Run one handler.  A once handler is taken out of the ledger just before: by
   its function, whichever registration it has by now. *)
RunHandler(c, r) ==
    /\ Turn(c)
    /\ ~done[c]
    /\ ledger' = TakeOnce(r)
    /\ spent' = IF r.once THEN spent \cup {r.serial} ELSE spent
    /\ ran' = [ran EXCEPT ![c] = Append(@, r)]

(* A bug to detect: handlers unregistered during the call are passed over. *)
RestRegistered(c, r) == (todo[c] \ {r}) \cap (ledger \cup {Default})

Rest(c, r) == todo[c] \ {r}

(* A handler that runs before or after; an error it throws is only logged. *)
RunAround(c) ==
    /\ \E r \in Foremost(todo[c]) :
          /\ r.kind \in {"before", "after"}
          /\ RunHandler(c, r)
          /\ todo' = [todo EXCEPT ![c] = Rest(c, r)]
    /\ stack' = Await(c)
    /\ UNCHANGED <<registered, stage, sync, below, done, found, nested>>

(* A bug to detect: every replacing handler is given the default handler. *)
DownToDefault(c, r) == {r}

(* The handlers under the main one, from the topmost down to r. *)
DownTo(c, r) == {q \in below[c] : q = r \/ Precedes(r, q)}

(* The main handler calls the one it replaces, or not, which calls the one it
   replaces, and so on.  These run without a look at their `once` option.  An
   error of the main handler is rethrown and ends the call. *)
RunMain(c) ==
    /\ \E r \in Foremost(todo[c]) :
          /\ r.kind \in {"default", "replace"}
          /\ RunHandler(c, r)
          /\ \E called \in {{}} \cup {DownTo(c, q) : q \in below[c]} :
                nested' = [nested EXCEPT ![c] = called]
          /\ \/ /\ todo' = [todo EXCEPT ![c] = Rest(c, r)]
                /\ stack' = Await(c)
                /\ UNCHANGED stage
             \/ /\ todo' = [todo EXCEPT ![c] = {}]
                /\ stack' = IF stack = <<>> THEN stack ELSE Tail(stack)
                /\ stage' = [stage EXCEPT ![c] = "thrown"]
    /\ UNCHANGED <<registered, sync, below, done, found>>

Return(c) ==
    /\ Turn(c)
    /\ todo[c] = {}
    /\ stage' = [stage EXCEPT ![c] = "returned"]
    /\ stack' = IF stack = <<>> THEN stack ELSE Tail(stack)
    /\ UNCHANGED <<ledger, registered, sync, todo, below, done, found, ran,
                   nested, spent>>

(* The visit of the call is aborted, or fails, or ends. *)
VisitEnds(c) ==
    /\ stage[c] = "running"
    /\ ~done[c]
    /\ done' = [done EXCEPT ![c] = TRUE]
    /\ UNCHANGED <<ledger, registered, stage, sync, stack, todo, below, found,
                   ran, nested, spent>>

-----------------------------------------------------------------------------
Init ==
    /\ ledger = {}
    /\ registered = 0
    /\ stage = [c \in Calls |-> "idle"]
    /\ sync = [c \in Calls |-> FALSE]
    /\ stack = <<>>
    /\ todo = [c \in Calls |-> {}]
    /\ below = [c \in Calls |-> {}]
    /\ done = [c \in Calls |-> FALSE]
    /\ found = [c \in Calls |-> {}]
    /\ ran = [c \in Calls |-> <<>>]
    /\ nested = [c \in Calls |-> {}]
    /\ spent = {}

CallStep(c) == Skip(c) \/ RunAround(c) \/ RunMain(c) \/ Return(c)

Next ==
    \/ \E h \in Handlers : Off(h) \/ \E o \in Options : On(h, o)
    \/ Clear
    \/ \E c \in Calls :
          \/ \E isSync, hasDefault \in BOOLEAN : Begin(c, isSync, hasDefault)
          \/ VisitEnds(c)
          \/ CallStep(c)

Spec == Init /\ [][Next]_vars

-----------------------------------------------------------------------------
(* Properties *)

Serials == 1..MaxRegistrations

Registrations ==
    [handler : Handlers, kind : Kinds, once : BOOLEAN, priority : Int,
     id : Nat, place : Nat, serial : Serials]

(* The types of the registry and of the calls in progress; the ledger is a Map:
   a handler has one registration, and one place. *)
TypeOK ==
    /\ ledger \subseteq Registrations
    /\ \A r, q \in ledger :
          r.handler = q.handler \/ r.place = q.place => r = q
    /\ registered \in 0..MaxRegistrations
    /\ stage \in [Calls -> {"idle", "running", "returned", "thrown"}]
    /\ sync \in [Calls -> BOOLEAN]
    /\ stack \in Seq(Calls)
    /\ todo \in [Calls -> SUBSET (Registrations \cup {Default})]
    /\ below \in [Calls -> SUBSET (Registrations \cup {Default})]
    /\ done \in [Calls -> BOOLEAN]
    /\ found \in [Calls -> SUBSET Registrations]
    /\ ran \in [Calls -> Seq(Registrations \cup {Default})]
    /\ nested \in [Calls -> SUBSET (Registrations \cup {Default})]
    /\ spent \subseteq Serials

(* A once handler that run() has executed is out of the ledger for good: no
   call that begins afterwards finds that registration again, whatever other
   calls, off() and on() did meanwhile ("then remove the handler", Hooks.ts:89,
   445). *)
OnceIsSpent == \A r \in ledger : r.serial \notin spent

(* A call that returns, its visit not done, has run each handler it found that
   runs before or after exactly once, although handlers were added, removed (by
   their `once`, by off()) and replaced while it ran. *)
NoneLost ==
    \A c \in Calls :
        stage[c] = "returned" /\ ~done[c] =>
            \A r \in found[c] :
                r.kind # "replace" =>
                    Cardinality({i \in DOMAIN ran[c] : ran[c][i] = r}) = 1

(* A call runs its handlers in stages and by priority within each (getHandlers
   and sortRegistrations). *)
RunsInOrder ==
    \A c \in Calls : \A i, j \in DOMAIN ran[c] :
        i < j =>
            \/ Rank(ran[c][i]) < Rank(ran[c][j])
            \/ /\ Rank(ran[c][i]) = Rank(ran[c][j])
               /\ ran[c][i].priority =< ran[c][j].priority

Executed(c) == nested[c] \cup {ran[c][i] : i \in DOMAIN ran[c]}

(* The default handler runs only through all the handlers that replace it: each
   one the call found has run and passed the call on (getHandlers). *)
ReplacersWrapDefault ==
    \A c \in Calls :
        Default \in Executed(c) =>
            \A r \in found[c] : r.kind = "replace" => r \in Executed(c)

(* "Execute the hook once, then remove the handler" (Hooks.ts:89): no two calls
   run the same once registration. *)
OnceRunsOnce ==
    \A c, d \in Calls : \A i \in DOMAIN ran[c], j \in DOMAIN ran[d] :
        c # d /\ ran[c][i].once => ran[c][i] # ran[d][j]

(* "sorted by priority and registration order" (Hooks.ts:498): of two handlers
   of one kind and priority, the one registered first runs first. *)
RegistrationOrder ==
    \A c \in Calls : \A i, j \in DOMAIN ran[c] :
        /\ i < j
        /\ Rank(ran[c][i]) = Rank(ran[c][j])
        /\ ran[c][i].priority = ran[c][j].priority
        => ran[c][i].serial < ran[c][j].serial
=============================================================================
