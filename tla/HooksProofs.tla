------------------------------ MODULE HooksProofs ------------------------------
(***************************************************************************)
(* What the hook registry guarantees for any handlers, options and calls.   *)
(*                                                                          *)
(* Registry is the inductive invariant of the ledger: serials identify      *)
(* registrations, so that the handler a call has in hand and a registration *)
(* in the ledger with the same serial are the same function, and off() of   *)
(* the one removes the other.  Progress is the invariant of the calls: what *)
(* a call found is either still to be done or has been done once.           *)
(***************************************************************************)
EXTENDS Hooks, FiniteSetTheorems, SequenceTheorems, TLAPS

Known ==
    /\ IsFiniteSet(ledger)
    /\ \A r \in ledger : r.serial \in 1..registered /\ r.place \in 1..registered
    /\ \A r, q \in ledger : r.serial = q.serial => r = q
    /\ \A s \in spent : s =< registered
    /\ \A c \in Calls : \A q \in todo[c] :
          /\ q.serial =< registered
          /\ \A r \in ledger : r.serial = q.serial => r.handler = q.handler

Registry == TypeOK /\ Known /\ OnceIsSpent

-----------------------------------------------------------------------------
(* The default handler is never taken for a registered one. *)
LEMMA DefaultIsNoRegistration ==
    /\ Default \notin Registrations
    /\ Default.kind = "default" /\ Default.serial = 0 /\ ~Default.once
  BY DEF Default, Registrations, Kinds

(* The fields of a registration. *)
LEMMA RegistrationFields ==
    ASSUME NEW r \in Registrations
    PROVE  /\ r.handler \in Handlers /\ r.kind \in Kinds /\ r.once \in BOOLEAN
           /\ r.priority \in Int /\ r.id \in Nat /\ r.place \in Nat
           /\ r.serial \in 1..MaxRegistrations
  BY DEF Registrations, Serials

(* An empty registry satisfies the invariant. *)
LEMMA InitRegistry == Init => Registry
<1> SUFFICES ASSUME Init PROVE Registry
  OBVIOUS
<1>1. TypeOK
  BY BoundAssumption DEF Init, TypeOK
<1>2. Known /\ OnceIsSpent
  BY FS_EmptySet DEF Init, Known, OnceIsSpent
<1> QED
  BY <1>1, <1>2 DEF Registry

(* The registration that on() makes. *)
LEMMA NewRegistration ==
    ASSUME Registry, NEW h \in Handlers, NEW o \in Options,
           registered < MaxRegistrations
    PROVE  LET n == Registration(h, o)
           IN  /\ n \in Registrations
               /\ n.handler = h
               /\ n.serial = registered + 1
               /\ n.place \in 1..(registered + 1)
               /\ \A q \in Without(h) : q.place # n.place
<1> USE BoundAssumption
<1> DEFINE n == Registration(h, o)
           old == {r \in ledger : r.handler = h}
<1>0. /\ TypeOK /\ Known
      /\ registered \in Nat /\ registered + 1 \in Serials
  BY DEF Registry, TypeOK, Serials
<1>1. Cardinality(ledger) + 1 \in Nat
  BY <1>0, FS_CardinalityType DEF Known
<1>2. o.kind \in Kinds /\ o.once \in BOOLEAN /\ o.priority \in Int
  BY OptionsAssumption
<1>3. /\ n.handler = h /\ n.serial = registered + 1
      /\ n.place = IF old = {} THEN registered + 1
                   ELSE (CHOOSE r \in old : TRUE).place
  BY DEF Registration
<1>4. n.place \in 1..(registered + 1) /\ \A q \in Without(h) : q.place # n.place
  <2>1. CASE old = {}
    <3>1. n.place = registered + 1
      BY <1>3, <2>1
    <3>2. \A q \in ledger : q.place \in 1..registered
      BY <1>0 DEF Known
    <3> QED
      BY <1>0, <3>1, <3>2 DEF Without
  <2>2. CASE old # {}
    <3>1. PICK r \in old : n.place = r.place
      BY <1>3, <2>2
    <3>2. r \in ledger /\ r.handler = h /\ r.place \in 1..registered
      BY <1>0, <3>1 DEF Known
    <3>3. \A q \in Without(h) : q \in ledger /\ q.handler # h
      BY DEF Without
    <3>4. \A q \in Without(h) : q.place # r.place
      BY <1>0, <3>2, <3>3 DEF TypeOK
    <3> QED
      BY <1>0, <3>1, <3>2, <3>4
  <2> QED
    BY <2>1, <2>2
<1>5. n.place \in Nat
  BY <1>0, <1>4
<1>6. n \in Registrations
  BY <1>0, <1>1, <1>2, <1>3, <1>5 DEF Registration, Registrations
<1> QED
  BY <1>3, <1>4, <1>6

(* on() replaces the registration of the handler by one with a new serial. *)
LEMMA OnRegistry ==
    ASSUME Registry, NEW h \in Handlers, NEW o \in Options, On(h, o)
    PROVE  Registry'
<1> USE BoundAssumption
<1> DEFINE n == Registration(h, o)
<1>0. TypeOK /\ Known /\ OnceIsSpent /\ registered \in Nat
  BY DEF Registry, TypeOK
<1>1. /\ registered < MaxRegistrations
      /\ registered' = registered + 1
      /\ ledger' = Without(h) \cup {n}
      /\ UNCHANGED <<stage, sync, stack, todo, below, done, found, ran, nested,
                     spent>>
  BY DEF On
<1>2. /\ n \in Registrations
      /\ n.handler = h
      /\ n.serial = registered + 1
      /\ n.place \in 1..(registered + 1)
      /\ \A q \in Without(h) : q.place # n.place
  BY <1>1, NewRegistration
<1> HIDE DEF n
<1>3. Without(h) \subseteq ledger /\ \A q \in Without(h) : q.handler # h
  BY DEF Without
<1>4. \A r, q \in ledger' : r.handler = q.handler \/ r.place = q.place => r = q
  <2>1. ASSUME NEW r \in ledger', NEW q \in ledger',
               r.handler = q.handler \/ r.place = q.place
        PROVE  r = q
    <3>1. CASE r \in Without(h) /\ q \in Without(h)
      BY <1>0, <1>3, <2>1, <3>1 DEF TypeOK
    <3>2. CASE r = n /\ q \in Without(h)
      BY <1>2, <1>3, <2>1, <3>2
    <3>3. CASE q = n /\ r \in Without(h)
      BY <1>2, <1>3, <2>1, <3>3
    <3> QED
      BY <1>1, <3>1, <3>2, <3>3
  <2> QED
    BY <2>1
<1>5. TypeOK'
  <2>1. ledger' \subseteq Registrations
    BY <1>0, <1>1, <1>2, <1>3 DEF TypeOK
  <2>2. registered' \in 0..MaxRegistrations
    BY <1>0, <1>1
  <2> QED
    BY <1>0, <1>1, <1>4, <2>1, <2>2 DEF TypeOK
<1>6. Known'
  <2>1. IsFiniteSet(ledger')
    BY <1>0, <1>1, <1>3, FS_Subset, FS_AddElement DEF Known
  <2>2. \A r \in ledger' :
           r.serial \in 1..registered' /\ r.place \in 1..registered'
    BY <1>0, <1>1, <1>2, <1>3 DEF Known
  <2>3. \A r \in Without(h) : r.serial # n.serial
    BY <1>0, <1>2, <1>3 DEF Known
  <2>4. \A r, q \in ledger' : r.serial = q.serial => r = q
    BY <1>0, <1>1, <1>3, <2>3 DEF Known
  <2>5. \A s \in spent' : s =< registered'
    BY <1>0, <1>1 DEF Known, TypeOK, Serials
  <2>6. ASSUME NEW c \in Calls, NEW q \in todo'[c]
        PROVE  /\ q.serial =< registered'
               /\ \A r \in ledger' : r.serial = q.serial => r.handler = q.handler
    <3>1. q \in todo[c] /\ q \in Registrations \cup {Default}
      BY <1>0, <1>1, <2>6 DEF TypeOK
    <3>2. q.serial \in Nat /\ q.serial =< registered
      BY <1>0, <3>1, RegistrationFields, DefaultIsNoRegistration DEF Known
    <3>3. q.serial # n.serial
      BY <1>0, <1>2, <3>2
    <3>4. \A r \in ledger : r.serial = q.serial => r.handler = q.handler
      BY <1>0, <3>1 DEF Known
    <3> QED
      BY <1>0, <1>1, <1>3, <3>2, <3>3, <3>4
  <2> QED
    BY <2>1, <2>2, <2>4, <2>5, <2>6 DEF Known
<1>7. OnceIsSpent'
  BY <1>0, <1>1, <1>2, <1>3 DEF OnceIsSpent, Known, TypeOK, Serials
<1> QED
  BY <1>5, <1>6, <1>7 DEF Registry

(* Whatever only takes registrations out of the ledger and out of the snapshots,
   and spends the serials of those it takes out. *)
LEMMA ShrinkingRegistry ==
    ASSUME Registry, TypeOK',
           ledger' \subseteq ledger,
           registered' = registered,
           \A c \in Calls : todo'[c] \subseteq todo[c],
           \A s \in spent' : s \in spent \/ /\ s =< registered
                                            /\ \A r \in ledger' : r.serial # s
    PROVE  Registry'
<1>1. Known'
  <2>1. IsFiniteSet(ledger')
    BY FS_Subset DEF Registry, Known
  <2> QED
    BY <2>1 DEF Registry, Known
<1>2. OnceIsSpent'
  BY DEF Registry, OnceIsSpent
<1> QED
  BY <1>1, <1>2 DEF Registry

(* off() and clear() only take registrations out. *)
LEMMA OffRegistry ==
    ASSUME Registry, Clear \/ \E h \in Handlers : Off(h)
    PROVE  Registry'
<1>1. /\ ledger' \subseteq ledger
      /\ UNCHANGED <<registered, stage, sync, stack, todo, below, done, found,
                     ran, nested, spent>>
  BY DEF Clear, Off, Without
<1>2. TypeOK'
  BY <1>1 DEF Registry, TypeOK
<1> QED
  BY <1>1, <1>2, ShrinkingRegistry

(* The handlers of a call come from the ledger, the default handler apart. *)
LEMMA SnapshotIsFound ==
    ASSUME NEW hasDefault \in BOOLEAN
    PROVE  /\ OfKind("before") \cup OfKind("after") \subseteq ledger
           /\ Main(hasDefault) \subseteq Mains(hasDefault)
           /\ Mains(hasDefault) \subseteq ledger \cup {Default}
  BY DEF OfKind, Main, Mains, Topmost

(* A call that begins works on registrations of the ledger. *)
LEMMA BeginRegistry ==
    ASSUME Registry, NEW c \in Calls, NEW isSync \in BOOLEAN,
           NEW hasDefault \in BOOLEAN, Begin(c, isSync, hasDefault)
    PROVE  Registry'
<1> USE BoundAssumption
<1> DEFINE snapshot == OfKind("before") \cup Main(hasDefault) \cup OfKind("after")
           replaced == Mains(hasDefault) \ Main(hasDefault)
<1>0. TypeOK /\ Known /\ OnceIsSpent /\ registered \in Nat
  BY DEF Registry, TypeOK
<1>1. /\ snapshot \subseteq ledger \cup {Default}
      /\ replaced \subseteq ledger \cup {Default}
      /\ ledger \subseteq Registrations
  BY <1>0, SnapshotIsFound DEF TypeOK
<1>2. /\ todo' = [todo EXCEPT ![c] = snapshot]
      /\ below' = [below EXCEPT ![c] = replaced]
      /\ found' = [found EXCEPT ![c] = ledger]
      /\ stage' = [stage EXCEPT ![c] = "running"]
      /\ sync' = [sync EXCEPT ![c] = isSync]
      /\ stack' = <<c>> \o stack \/ stack' = stack
      /\ UNCHANGED <<ledger, registered, done, ran, nested, spent>>
  BY DEF Begin
<1> HIDE DEF snapshot, replaced
<1>3. TypeOK'
  <2>1. stack' \in Seq(Calls)
    <3>1. stack \in Seq(Calls) /\ <<c>> \in Seq(Calls)
      BY <1>0 DEF TypeOK
    <3>2. <<c>> \o stack \in Seq(Calls)
      BY <3>1, ConcatProperties
    <3> QED
      BY <1>2, <3>1, <3>2
  <2>2. /\ todo' \in [Calls -> SUBSET (Registrations \cup {Default})]
        /\ below' \in [Calls -> SUBSET (Registrations \cup {Default})]
        /\ found' \in [Calls -> SUBSET Registrations]
    BY <1>0, <1>1, <1>2 DEF TypeOK
  <2>3. /\ stage' \in [Calls -> {"idle", "running", "returned", "thrown"}]
        /\ sync' \in [Calls -> BOOLEAN]
    BY <1>0, <1>2 DEF TypeOK
  <2> QED
    BY <1>0, <1>2, <2>1, <2>2, <2>3 DEF TypeOK
<1>4. Known'
  <2>1. ASSUME NEW d \in Calls, NEW q \in todo'[d]
        PROVE  /\ q.serial =< registered
               /\ \A r \in ledger : r.serial = q.serial => r.handler = q.handler
    <3>1. q \in todo[d] \/ q \in ledger \/ q = Default
      BY <1>0, <1>1, <1>2, <2>1 DEF TypeOK
    <3>2. CASE q \in todo[d] \/ q \in ledger
      BY <1>0, <3>2 DEF Known
    <3>3. CASE q = Default
      BY <1>0, <3>3, DefaultIsNoRegistration DEF Known
    <3> QED
      BY <3>1, <3>2, <3>3
  <2> QED
    BY <1>0, <1>2, <2>1 DEF Known
<1>5. OnceIsSpent'
  BY <1>0, <1>2 DEF OnceIsSpent
<1> QED
  BY <1>3, <1>4, <1>5 DEF Registry

(* What a handler that runs does to the ledger. *)
LEMMA RunHandlerLedger ==
    ASSUME Registry, NEW c \in Calls, NEW r \in todo[c], RunHandler(c, r)
    PROVE  /\ ledger' \subseteq ledger
           /\ spent' \subseteq Serials
           /\ \A s \in spent' : s \in spent \/ /\ s =< registered
                                               /\ \A q \in ledger' : q.serial # s
           /\ r \in Registrations \cup {Default}
           /\ ran' = [ran EXCEPT ![c] = Append(@, r)]
           /\ ran' \in [Calls -> Seq(Registrations \cup {Default})]
<1>0. TypeOK /\ Known
  BY DEF Registry
<1>1. r \in Registrations \cup {Default}
  BY <1>0 DEF TypeOK
<1>2. /\ ledger' = TakeOnce(r)
      /\ spent' = IF r.once THEN spent \cup {r.serial} ELSE spent
      /\ ran' = [ran EXCEPT ![c] = Append(@, r)]
  BY DEF RunHandler
<1>3. r.once => r.serial \in Serials
  BY <1>1, RegistrationFields, DefaultIsNoRegistration DEF Serials
<1>4. spent' \subseteq Serials
  BY <1>0, <1>2, <1>3 DEF TypeOK
<1>5. r.serial =< registered
      /\ \A q \in ledger : q.serial = r.serial => q.handler = r.handler
  BY <1>0 DEF Known
<1>6. ledger' \subseteq ledger
  BY <1>2 DEF TakeOnce, Without
<1>7. r.once => \A q \in ledger' : q.serial # r.serial
  BY <1>2, <1>5 DEF TakeOnce, Without
<1>8. ran' \in [Calls -> Seq(Registrations \cup {Default})]
  BY <1>0, <1>1, <1>2 DEF TypeOK
<1> QED
  BY <1>1, <1>2, <1>4, <1>5, <1>6, <1>7, <1>8

(* A call that leaves the stack leaves the calls under it. *)
LEMMA AwaitType ==
    ASSUME stack \in Seq(Calls)
    PROVE  /\ \A c \in Calls : Await(c) \in Seq(Calls)
           /\ (IF stack = <<>> THEN stack ELSE Tail(stack)) \in Seq(Calls)
  BY DEF Await

(* Running a handler takes its registration, and no other, out of the ledger. *)
LEMMA RunRegistry ==
    ASSUME Registry, NEW c \in Calls, RunAround(c) \/ RunMain(c)
    PROVE  Registry'
<1>0. TypeOK
  BY DEF Registry
<1>1. PICK r \in todo[c] :
         /\ RunHandler(c, r)
         /\ todo' = [todo EXCEPT ![c] = Rest(c, r)] \/ todo' = [todo EXCEPT ![c] = {}]
  BY DEF RunAround, RunMain, Foremost
<1>2. \A d \in Calls : todo'[d] \subseteq todo[d]
  BY <1>0, <1>1 DEF Rest, TypeOK
<1>3. /\ UNCHANGED <<registered, sync, below, done, found>>
      /\ stage' = stage \/ stage' = [stage EXCEPT ![c] = "thrown"]
      /\ stack' = Await(c) \/ stack' = IF stack = <<>> THEN stack ELSE Tail(stack)
      /\ \/ nested' = nested
         \/ \E called \in {{}} \cup {DownTo(c, q) : q \in below[c]} :
               nested' = [nested EXCEPT ![c] = called]
  BY DEF RunAround, RunMain
<1>4. TypeOK'
  <2>1. ledger' \subseteq ledger /\ spent' \subseteq Serials
        /\ ran' \in [Calls -> Seq(Registrations \cup {Default})]
    BY <1>1, RunHandlerLedger
  <2>2. stack' \in Seq(Calls)
    BY <1>0, <1>3, AwaitType DEF TypeOK
  <2>3. nested' \in [Calls -> SUBSET (Registrations \cup {Default})]
    <3>1. \A q \in below[c] : DownTo(c, q) \subseteq below[c]
      BY DEF DownTo
    <3>2. below[c] \subseteq Registrations \cup {Default}
      BY <1>0 DEF TypeOK
    <3>3. nested' = nested
          \/ \E called \in SUBSET (Registrations \cup {Default}) :
                nested' = [nested EXCEPT ![c] = called]
      BY <1>3, <3>1, <3>2
    <3> QED
      BY <1>0, <3>3 DEF TypeOK
  <2>4. todo' \in [Calls -> SUBSET (Registrations \cup {Default})]
    <3>1. todo[c] \in SUBSET (Registrations \cup {Default})
      BY <1>0 DEF TypeOK
    <3>2. \E left \in SUBSET (Registrations \cup {Default}) :
             todo' = [todo EXCEPT ![c] = left]
      BY <1>1, <3>1 DEF Rest
    <3> QED
      BY <1>0, <3>2 DEF TypeOK
  <2>5. stage' \in [Calls -> {"idle", "running", "returned", "thrown"}]
    BY <1>0, <1>3 DEF TypeOK
  <2>6. /\ ledger' \subseteq Registrations
        /\ \A q, p \in ledger' :
              q.handler = p.handler \/ q.place = p.place => q = p
    BY <1>0, <2>1 DEF TypeOK
  <2> QED
    BY <1>0, <1>3, <2>1, <2>2, <2>3, <2>4, <2>5, <2>6 DEF TypeOK
<1> QED
  BY <1>1, <1>2, <1>3, <1>4, RunHandlerLedger, ShrinkingRegistry

(* Skipping, returning and the end of a visit leave the ledger alone. *)
LEMMA OtherRegistry ==
    ASSUME Registry, NEW c \in Calls, Skip(c) \/ Return(c) \/ VisitEnds(c)
    PROVE  Registry'
<1>0. TypeOK
  BY DEF Registry
<1>1. /\ UNCHANGED <<ledger, registered, sync, below, found, ran, nested, spent>>
      /\ \/ todo' = todo
         \/ \E r \in todo[c] : todo' = [todo EXCEPT ![c] = todo[c] \ {r}]
      /\ stage' = stage \/ stage' = [stage EXCEPT ![c] = "returned"]
      /\ \/ stack' = stack
         \/ stack' = Await(c)
         \/ stack' = IF stack = <<>> THEN stack ELSE Tail(stack)
      /\ done' = done \/ done' = [done EXCEPT ![c] = TRUE]
  BY DEF Skip, Return, VisitEnds, Foremost
<1>2. TypeOK'
  <2>1. stack' \in Seq(Calls)
    BY <1>0, <1>1, AwaitType DEF TypeOK
  <2>2. todo' \in [Calls -> SUBSET (Registrations \cup {Default})]
    <3>1. todo[c] \in SUBSET (Registrations \cup {Default})
      BY <1>0 DEF TypeOK
    <3>2. todo' = todo
          \/ \E left \in SUBSET (Registrations \cup {Default}) :
                todo' = [todo EXCEPT ![c] = left]
      BY <1>1, <3>1
    <3> QED
      BY <1>0, <3>2 DEF TypeOK
  <2>3. /\ stage' \in [Calls -> {"idle", "running", "returned", "thrown"}]
        /\ done' \in [Calls -> BOOLEAN]
    BY <1>0, <1>1 DEF TypeOK
  <2> QED
    BY <1>0, <1>1, <2>1, <2>2, <2>3 DEF TypeOK
<1>3. \A d \in Calls : todo'[d] \subseteq todo[d]
  <2>1. \E left \in SUBSET todo[c] : todo' = [todo EXCEPT ![c] = left]
    BY <1>0, <1>1 DEF TypeOK
  <2> QED
    BY <1>0, <2>1 DEF TypeOK
<1> QED
  BY <1>1, <1>2, <1>3, ShrinkingRegistry

(* Every step preserves the invariant of the registry. *)
LEMMA StepRegistry == Registry /\ [Next]_vars => Registry'
<1> SUFFICES ASSUME Registry, [Next]_vars PROVE Registry'
  OBVIOUS
<1>1. ASSUME NEW h \in Handlers, NEW o \in Options, On(h, o) PROVE Registry'
  BY <1>1, OnRegistry
<1>2. CASE Clear \/ \E h \in Handlers : Off(h)
  BY <1>2, OffRegistry
<1>3. ASSUME NEW c \in Calls, NEW isSync \in BOOLEAN, NEW hasDefault \in BOOLEAN,
             Begin(c, isSync, hasDefault)
      PROVE  Registry'
  BY <1>3, BeginRegistry
<1>4. ASSUME NEW c \in Calls, VisitEnds(c) \/ CallStep(c) PROVE Registry'
  BY <1>4, RunRegistry, OtherRegistry DEF CallStep
<1>5. CASE UNCHANGED vars
  BY <1>5 DEF vars, Registry, TypeOK, Known, OnceIsSpent
<1> QED
  BY <1>1, <1>2, <1>3, <1>4, <1>5 DEF Next

(* The registry's invariant: serials identify registrations, in the ledger and in
   the hands of the calls (Hooks.on, off, run). *)
THEOREM RegistryHolds == Spec => []Registry
<1>1. Init => Registry
  BY InitRegistry
<1>2. Registry /\ [Next]_vars => Registry'
  BY StepRegistry
<1> QED
  BY <1>1, <1>2, PTL DEF Spec

(* The ledger is a Map with one registration for each handler, and everything a
   call works on is a registration or the default handler. *)
THEOREM TypeCorrect == Spec => []TypeOK
<1>1. Registry => TypeOK
  BY DEF Registry
<1> QED
  BY <1>1, RegistryHolds, PTL

(* A once registration that run() has executed is never found again. *)
THEOREM SpentForGood == Spec => []OnceIsSpent
<1>1. Registry => OnceIsSpent
  BY DEF Registry
<1> QED
  BY <1>1, RegistryHolds, PTL

-----------------------------------------------------------------------------
(* The calls *)

IsMain(r) == r.kind \in {"default", "replace"}
Times(c, r) == {i \in DOMAIN ran[c] : ran[c][i] = r}

(* Each handler that runs before or after is still to be done or done once. *)
Accounted ==
    \A c \in Calls :
        /\ stage[c] = "idle" => ran[c] = <<>> /\ nested[c] = {} /\ todo[c] = {}
        /\ stage[c] = "returned" => todo[c] = {}
        /\ stage[c] \in {"running", "returned"} /\ ~done[c] =>
              \A r \in found[c] : r.kind # "replace" =>
                  IF r \in todo[c] THEN Times(c, r) = {}
                                   ELSE \E i \in DOMAIN ran[c] : Times(c, r) = {i}

(* A call has one main handler, with all the others it replaces under it. *)
Wrapped ==
    \A c \in Calls :
        /\ \A m, q \in todo[c] : IsMain(m) /\ IsMain(q) => m = q
        /\ \A m \in todo[c] : IsMain(m) =>
              \A q \in found[c] : q.kind = "replace" => q \in below[c] \cup {m}
        /\ \A q \in below[c] : q = Default \/ q.kind = "replace"
        /\ Default \in todo[c] => below[c] = {}
        /\ (\E m \in todo[c] : IsMain(m)) =>
              nested[c] = {} /\ \A i \in DOMAIN ran[c] : ~IsMain(ran[c][i])

Progress == Accounted /\ Wrapped /\ ReplacersWrapDefault

(* In the sort the default handler comes before those that replace it. *)
LEMMA DefaultRunsFirst ==
    ASSUME NEW q, q.kind = "replace"
    PROVE  Precedes(Default, q) /\ ~Precedes(q, Default)
<1>1. Rank(Default) = 2
  BY DefaultIsNoRegistration DEF Rank
<1>2. Rank(q) = 3
  BY DEF Rank
<1> QED
  BY <1>1, <1>2 DEF Precedes

(* Where an element stands in a sequence after an append. *)
LEMMA AppendPositions ==
    ASSUME NEW S, NEW s \in Seq(S), NEW x \in S, NEW r
    PROVE  {i \in DOMAIN Append(s, x) : Append(s, x)[i] = r} =
           {i \in DOMAIN s : s[i] = r} \cup (IF x = r THEN {Len(s) + 1} ELSE {})
<1>1. /\ DOMAIN Append(s, x) = 1..(Len(s) + 1)
      /\ DOMAIN s = 1..Len(s)
      /\ Len(s) \in Nat
      /\ Append(s, x)[Len(s) + 1] = x
      /\ \A i \in 1..Len(s) : Append(s, x)[i] = s[i]
  OBVIOUS
<1> QED
  BY <1>1

(* The main handler is unique, and comes after the others in the order. *)
LEMMA MainIsTopmost ==
    ASSUME TypeOK, NEW hasDefault \in BOOLEAN
    PROVE  /\ \A m, q \in Main(hasDefault) : m = q
           /\ \A q \in Mains(hasDefault) : q = Default \/ q.kind = "replace"
           /\ Default \in Main(hasDefault) => Mains(hasDefault) = {Default}
           /\ Main(hasDefault) # {} =>
                 \A q \in ledger : q.kind = "replace" => q \in Mains(hasDefault)
<1>1. \A q \in Mains(hasDefault) : q = Default \/ (q \in ledger /\ q.kind = "replace")
  BY DEF Mains, OfKind
<1>2. ASSUME NEW m \in Main(hasDefault), NEW q \in Main(hasDefault), m # q
      PROVE  FALSE
  <2>1. /\ m \in Mains(hasDefault) /\ q \in Mains(hasDefault)
        /\ Precedes(m, q) /\ Precedes(q, m)
    BY <1>2 DEF Main, Topmost
  <2>2. CASE m = Default \/ q = Default
    BY <1>1, <1>2, <2>1, <2>2, DefaultRunsFirst
  <2>3. CASE m # Default /\ q # Default
    <3>1. /\ m \in Registrations /\ q \in Registrations
          /\ m.kind = "replace" /\ q.kind = "replace"
      BY <1>1, <2>1, <2>3 DEF TypeOK
    <3>2. Sorted(m, q) /\ Sorted(q, m)
      BY <2>1, <3>1 DEF Precedes, Rank
    <3> QED
      BY <3>1, <3>2, RegistrationFields DEF Sorted
  <2> QED
    BY <2>2, <2>3
<1>3. ASSUME Default \in Main(hasDefault) PROVE Mains(hasDefault) = {Default}
  <2>1. ASSUME NEW q \in Mains(hasDefault), q # Default PROVE FALSE
    BY <1>1, <1>3, <2>1, DefaultRunsFirst DEF Main, Topmost
  <2>2. Default \in Mains(hasDefault)
    BY <1>3 DEF Main, Topmost
  <2> QED
    BY <2>1, <2>2
<1>4. Main(hasDefault) # {} =>
         \A q \in ledger : q.kind = "replace" => q \in Mains(hasDefault)
  BY DEF Main, Mains, Topmost, OfKind
<1> QED
  BY <1>1, <1>2, <1>3, <1>4

(* No call has begun. *)
LEMMA InitProgress == Init => Progress
  BY DEF Init, Progress, Accounted, Wrapped, ReplacersWrapDefault, Executed,
         Times

(* A call that begins has all it found still to do, under one main handler. *)
LEMMA BeginProgress ==
    ASSUME TypeOK, Progress, NEW c \in Calls, NEW isSync \in BOOLEAN,
           NEW hasDefault \in BOOLEAN, Begin(c, isSync, hasDefault)
    PROVE  Progress'
<1> DEFINE snapshot == OfKind("before") \cup Main(hasDefault) \cup OfKind("after")
           replaced == Mains(hasDefault) \ Main(hasDefault)
<1>0. Accounted /\ Wrapped /\ ReplacersWrapDefault
  BY DEF Progress
<1>1. /\ stage[c] = "idle" /\ stage'[c] = "running"
      /\ todo'[c] = snapshot
      /\ below'[c] = replaced
      /\ found'[c] = ledger
      /\ ran[c] = <<>> /\ nested[c] = {}
      /\ UNCHANGED <<done, ran, nested>>
      /\ \A d \in Calls : d # c =>
            /\ stage'[d] = stage[d] /\ todo'[d] = todo[d]
            /\ below'[d] = below[d] /\ found'[d] = found[d]
  BY <1>0 DEF Begin, TypeOK, Accounted
<1>2. ledger \subseteq Registrations
  BY DEF TypeOK
<1>3. Accounted'
  <2>1. \A r \in ledger : r.kind # "replace" => r \in snapshot
    BY <1>2, RegistrationFields DEF OfKind, Kinds
  <2>2. \A r : Times(c, r)' = {}
    BY <1>1 DEF Times
  <2>3. \A d \in Calls : \A r : Times(d, r)' = Times(d, r)
    BY <1>1 DEF Times
  <2> QED
    BY <1>0, <1>1, <2>1, <2>2, <2>3 DEF Accounted
<1>4. Wrapped'
  <2>1. \A m \in snapshot : IsMain(m) => m \in Main(hasDefault)
    BY DEF IsMain, OfKind
  <2>2. Default \in snapshot => Default \in Main(hasDefault)
    BY <2>1, DefaultIsNoRegistration DEF IsMain
  <2>3. /\ \A m, q \in snapshot : IsMain(m) /\ IsMain(q) => m = q
        /\ \A m \in snapshot : IsMain(m) =>
              \A q \in ledger : q.kind = "replace" => q \in replaced \cup {m}
        /\ \A q \in replaced : q = Default \/ q.kind = "replace"
        /\ Default \in snapshot => replaced = {}
    BY <2>1, <2>2, MainIsTopmost
  <2> HIDE DEF snapshot, replaced
  <2> QED
    BY <1>0, <1>1, <2>3 DEF Wrapped
<1>5. ReplacersWrapDefault'
  <2>1. Executed(c)' = {}
    BY <1>1 DEF Executed
  <2>2. \A d \in Calls : Executed(d)' = Executed(d)
    BY <1>1 DEF Executed
  <2> QED
    BY <1>0, <1>1, <2>1, <2>2 DEF ReplacersWrapDefault
<1> QED
  BY <1>3, <1>4, <1>5 DEF Progress

(* One handler runs: it is added to ran[c], and leaves todo[c]. *)
LEMMA RunAccounted ==
    ASSUME TypeOK, Progress, NEW c \in Calls, RunAround(c) \/ RunMain(c)
    PROVE  Accounted'
<1>0. Accounted
  BY DEF Progress
<1>1. PICK r \in todo[c] :
         /\ RunHandler(c, r)
         /\ \/ todo' = [todo EXCEPT ![c] = Rest(c, r)] /\ stage' = stage
            \/ todo' = [todo EXCEPT ![c] = {}] /\ stage' = [stage EXCEPT ![c] = "thrown"]
  BY DEF RunAround, RunMain, Foremost
<1>2. /\ stage[c] = "running"
      /\ ran' = [ran EXCEPT ![c] = Append(@, r)]
      /\ UNCHANGED <<done, found>>
      /\ \A d \in Calls : d # c => nested'[d] = nested[d]
  BY <1>1 DEF RunHandler, Turn, RunAround, RunMain, TypeOK
<1>3. r \in Registrations \cup {Default} /\ ran[c] \in Seq(Registrations \cup {Default})
  BY DEF TypeOK
<1>4. /\ ran'[c] = Append(ran[c], r)
      /\ \A d \in Calls : d # c =>
            ran'[d] = ran[d] /\ todo'[d] = todo[d] /\ stage'[d] = stage[d]
  BY <1>1, <1>2 DEF TypeOK
<1>5. ASSUME NEW d \in Calls, d # c
      PROVE  /\ stage'[d] = "idle" =>
                   ran'[d] = <<>> /\ nested'[d] = {} /\ todo'[d] = {}
             /\ stage'[d] = "returned" => todo'[d] = {}
             /\ stage'[d] \in {"running", "returned"} /\ ~done'[d] =>
                   \A q \in found'[d] : q.kind # "replace" =>
                      IF q \in todo'[d] THEN Times(d, q)' = {}
                      ELSE \E i \in DOMAIN ran'[d] : Times(d, q)' = {i}
  <2>1. \A q : Times(d, q)' = Times(d, q)
    BY <1>4, <1>5 DEF Times
  <2> QED
    BY <1>0, <1>2, <1>4, <1>5, <2>1 DEF Accounted
<1>6. CASE todo' = [todo EXCEPT ![c] = {}] /\ stage' = [stage EXCEPT ![c] = "thrown"]
  <2>1. stage'[c] = "thrown"
    BY <1>6 DEF TypeOK
  <2> QED
    BY <1>5, <2>1 DEF Accounted
<1>7. CASE todo' = [todo EXCEPT ![c] = Rest(c, r)] /\ stage' = stage
  <2>1. todo'[c] = todo[c] \ {r} /\ stage'[c] = "running"
    BY <1>2, <1>7 DEF Rest, TypeOK
  <2>2. \A q : Times(c, q)' = Times(c, q) \cup IF r = q THEN {Len(ran[c]) + 1} ELSE {}
    BY <1>3, <1>4, AppendPositions DEF Times
  <2>3. DOMAIN ran[c] \subseteq DOMAIN ran'[c] /\ Len(ran[c]) + 1 \in DOMAIN ran'[c]
    BY <1>3, <1>4
  <2>4. ASSUME NEW q \in found[c], q.kind # "replace", ~done[c]
        PROVE  IF q \in todo'[c] THEN Times(c, q)' = {}
               ELSE \E i \in DOMAIN ran'[c] : Times(c, q)' = {i}
    <3>1. IF q \in todo[c] THEN Times(c, q) = {}
          ELSE \E i \in DOMAIN ran[c] : Times(c, q) = {i}
      BY <1>0, <1>2, <2>4 DEF Accounted
    <3>2. CASE q = r
      <4>1. Times(c, q)' = {Len(ran[c]) + 1} /\ q \notin todo'[c]
        BY <2>1, <2>2, <3>1, <3>2
      <4> QED
        BY <2>3, <4>1
    <3>3. CASE q # r
      <4>1. Times(c, q)' = Times(c, q) /\ (q \in todo'[c] <=> q \in todo[c])
        BY <2>1, <2>2, <3>3
      <4> QED
        BY <2>3, <3>1, <4>1
    <3> QED
      BY <3>2, <3>3
  <2> QED
    BY <1>2, <1>5, <2>1, <2>4 DEF Accounted
<1> QED
  BY <1>1, <1>6, <1>7

(* Handlers that run before or after do not touch the main handler. *)
LEMMA RunAroundWrapped ==
    ASSUME TypeOK, Progress, NEW c \in Calls, RunAround(c)
    PROVE  Wrapped' /\ ReplacersWrapDefault'
<1>0. Wrapped /\ ReplacersWrapDefault
  BY DEF Progress
<1>1. PICK r \in todo[c] :
         /\ r.kind \in {"before", "after"}
         /\ ran' = [ran EXCEPT ![c] = Append(@, r)]
         /\ todo' = [todo EXCEPT ![c] = todo[c] \ {r}]
  BY DEF RunAround, Foremost, RunHandler, Rest
<1>2. UNCHANGED <<below, found, nested>>
  BY DEF RunAround
<1>3. Wrapped'
  <2>1. \A d \in Calls : todo'[d] \subseteq todo[d]
    BY <1>1 DEF TypeOK
  <2>2. ASSUME NEW d \in Calls, \A i \in DOMAIN ran[d] : ~IsMain(ran[d][i])
        PROVE  \A i \in DOMAIN ran'[d] : ~IsMain(ran'[d][i])
    <3>1. CASE d # c
      BY <1>1, <2>2, <3>1 DEF TypeOK
    <3>2. CASE d = c
      <4>1. /\ ran[c] \in Seq(Registrations \cup {Default})
            /\ r \in Registrations \cup {Default}
            /\ ran'[c] = Append(ran[c], r)
        BY <1>1 DEF TypeOK
      <4>2. ~IsMain(r)
        BY <1>1 DEF IsMain
      <4>3. \A i \in DOMAIN ran'[c] :
               ran'[c][i] = r \/ (i \in DOMAIN ran[c] /\ ran'[c][i] = ran[c][i])
        BY <4>1
      <4> QED
        BY <2>2, <3>2, <4>2, <4>3
    <3> QED
      BY <3>1, <3>2
  <2> QED
    BY <1>0, <1>2, <2>1, <2>2 DEF Wrapped
<1>4. /\ Executed(c) \subseteq Executed(c)'
      /\ Default \in Executed(c)' => Default \in Executed(c)
  <2>1. Executed(c)' = Executed(c) \cup {r}
    <3>1. /\ ran[c] \in Seq(Registrations \cup {Default})
          /\ r \in Registrations \cup {Default}
          /\ ran'[c] = Append(ran[c], r)
      BY <1>1 DEF TypeOK
    <3>2. {ran'[c][i] : i \in DOMAIN ran'[c]} = {ran[c][i] : i \in DOMAIN ran[c]} \cup {r}
      BY <3>1
    <3> QED
      BY <1>2, <3>2 DEF Executed
  <2>2. r # Default
    BY <1>1, DefaultIsNoRegistration
  <2> QED
    BY <2>1, <2>2
<1>5. ReplacersWrapDefault'
  <2> SUFFICES ASSUME NEW d \in Calls, Default \in Executed(d)',
                      NEW q \in found'[d], q.kind = "replace"
               PROVE  q \in Executed(d)'
    BY DEF ReplacersWrapDefault
  <2>1. /\ Executed(d) \subseteq Executed(d)'
        /\ Default \in Executed(d)' => Default \in Executed(d)
    <3>1. CASE d = c
      BY <1>4, <3>1
    <3>2. CASE d # c
      <4>1. ran'[d] = ran[d] /\ nested'[d] = nested[d]
        BY <1>1, <1>2, <3>2 DEF TypeOK
      <4> QED
        BY <4>1 DEF Executed
    <3> QED
      BY <3>1, <3>2
  <2>2. Default \in Executed(d) /\ q \in found[d]
    BY <1>2, <2>1
  <2>3. q \in Executed(d)
    BY <1>0, <2>2 DEF ReplacersWrapDefault
  <2> QED
    BY <2>1, <2>3
<1> QED
  BY <1>3, <1>5

(* The main handler reaches the default handler only through the others. *)
LEMMA RunMainWrapped ==
    ASSUME TypeOK, Progress, NEW c \in Calls, RunMain(c)
    PROVE  Wrapped' /\ ReplacersWrapDefault'
<1>0. Wrapped /\ ReplacersWrapDefault
  BY DEF Progress
<1>1. PICK r \in todo[c] :
         /\ r.kind \in {"default", "replace"}
         /\ ran' = [ran EXCEPT ![c] = Append(@, r)]
         /\ \E called \in {{}} \cup {DownTo(c, q) : q \in below[c]} :
               nested' = [nested EXCEPT ![c] = called]
         /\ \/ todo' = [todo EXCEPT ![c] = todo[c] \ {r}]
            \/ todo' = [todo EXCEPT ![c] = {}]
  BY DEF RunMain, Foremost, RunHandler, Rest
<1>2. UNCHANGED <<below, found>>
  BY DEF RunMain
<1>3. /\ IsMain(r)
      /\ \A m \in todo'[c] : ~IsMain(m)
      /\ \A d \in Calls : todo'[d] \subseteq todo[d]
      /\ \A d \in Calls : d # c => ran'[d] = ran[d] /\ nested'[d] = nested[d]
  <2>1. IsMain(r)
    BY <1>1 DEF IsMain
  <2>2. \/ todo'[c] = todo[c] \ {r}
        \/ todo'[c] = {}
    BY <1>1 DEF TypeOK
  <2>3. \A m \in todo[c] : IsMain(m) => m = r
    BY <1>0, <2>1 DEF Wrapped
  <2>4. \A d \in Calls : d # c =>
           todo'[d] = todo[d] /\ ran'[d] = ran[d] /\ nested'[d] = nested[d]
    BY <1>1 DEF TypeOK
  <2> QED
    BY <2>1, <2>2, <2>3, <2>4
<1>4. Wrapped'
  BY <1>0, <1>2, <1>3 DEF Wrapped
<1>5. ASSUME NEW d \in Calls, d # c PROVE Executed(d)' = Executed(d)
  BY <1>3, <1>5 DEF Executed
<1>6. /\ r \in Executed(c)' /\ nested'[c] \subseteq Executed(c)'
      /\ Default \in Executed(c)' => Default = r \/ Default \in nested'[c]
  <2>1. /\ ran[c] \in Seq(Registrations \cup {Default})
        /\ r \in Registrations \cup {Default}
        /\ ran'[c] = Append(ran[c], r)
    BY <1>1 DEF TypeOK
  <2>2. /\ Len(ran[c]) + 1 \in DOMAIN ran'[c]
        /\ ran'[c][Len(ran[c]) + 1] = r
        /\ \A i \in DOMAIN ran'[c] :
              ran'[c][i] = r \/ (i \in DOMAIN ran[c] /\ ran'[c][i] = ran[c][i])
    BY <2>1
  <2>3. \A i \in DOMAIN ran[c] : ran[c][i] # Default
    BY <1>0, <1>3, DefaultIsNoRegistration DEF Wrapped, IsMain
  <2> QED
    BY <2>2, <2>3 DEF Executed
<1>7. ASSUME Default = r \/ Default \in nested'[c],
             NEW q \in found[c], q.kind = "replace"
      PROVE  q = r \/ q \in nested'[c]
  <2>1. q \in below[c] \cup {r}
    BY <1>0, <1>3, <1>7 DEF Wrapped
  <2>2. CASE Default = r
    BY <1>0, <2>1, <2>2 DEF Wrapped
  <2>3. CASE Default \in nested'[c]
    <3>1. PICK lowest \in below[c] : nested'[c] = DownTo(c, lowest)
      BY <1>1, <2>3 DEF TypeOK
    <3>2. lowest = Default
      <4>1. lowest = Default \/ Precedes(lowest, Default)
        BY <2>3, <3>1 DEF DownTo
      <4>2. lowest = Default \/ lowest.kind = "replace"
        BY <1>0 DEF Wrapped
      <4> QED
        BY <4>1, <4>2, DefaultRunsFirst
    <3>3. q \in below[c] => q \in nested'[c]
      BY <1>7, <3>1, <3>2, DefaultRunsFirst DEF DownTo
    <3> QED
      BY <2>1, <3>3
  <2> QED
    BY <1>7, <2>2, <2>3
<1>8. ReplacersWrapDefault'
  <2> SUFFICES ASSUME NEW d \in Calls, Default \in Executed(d)',
                      NEW q \in found'[d], q.kind = "replace"
               PROVE  q \in Executed(d)'
    BY DEF ReplacersWrapDefault
  <2>1. q \in found[d]
    BY <1>2
  <2>2. CASE d # c
    <3>1. Default \in Executed(d)
      BY <1>5, <2>2
    <3>2. q \in Executed(d)
      BY <1>0, <2>1, <3>1 DEF ReplacersWrapDefault
    <3> QED
      BY <1>5, <2>2, <3>2
  <2>3. CASE d = c
    <3>1. Default = r \/ Default \in nested'[c]
      BY <1>6, <2>3
    <3>2. q = r \/ q \in nested'[c]
      BY <1>7, <2>1, <2>3, <3>1
    <3> QED
      BY <1>6, <2>3, <3>2
  <2> QED
    BY <2>2, <2>3
<1> QED
  BY <1>4, <1>8

(* Other steps leave what has run alone. *)
LEMMA OtherProgress ==
    ASSUME TypeOK, Progress,
           \/ \E c \in Calls : Skip(c) \/ Return(c) \/ VisitEnds(c)
           \/ UNCHANGED <<stage, todo, below, done, found, ran, nested>>
    PROVE  Progress'
<1>0. Accounted /\ Wrapped /\ ReplacersWrapDefault
  BY DEF Progress
<1>1. /\ UNCHANGED <<below, found, ran, nested>>
      /\ \A d \in Calls :
            \/ todo'[d] = todo[d] /\ stage'[d] = stage[d] /\ done'[d] = done[d]
            \/ /\ stage[d] = "running"
               /\ todo'[d] \subseteq todo[d]
               /\ stage'[d] = "running"
               /\ done'[d]
            \/ /\ stage[d] = "running" /\ todo[d] = {}
               /\ todo'[d] = {} /\ stage'[d] = "returned" /\ done'[d] = done[d]
  BY DEF Skip, Return, VisitEnds, Turn, TypeOK
<1>2. \A d \in Calls : Executed(d)' = Executed(d)
  BY <1>1 DEF Executed
<1>3. \A d \in Calls : \A q : Times(d, q)' = Times(d, q)
  BY <1>1 DEF Times
<1>4. Accounted'
  BY <1>0, <1>1, <1>3 DEF Accounted
<1>5. Wrapped'
  <2>1. \A d \in Calls : todo'[d] \subseteq todo[d]
    BY <1>1
  <2> QED
    BY <1>0, <1>1, <2>1 DEF Wrapped
<1>6. ReplacersWrapDefault'
  BY <1>0, <1>1, <1>2 DEF ReplacersWrapDefault
<1> QED
  BY <1>4, <1>5, <1>6 DEF Progress

(* Every step preserves the invariant of the calls. *)
LEMMA StepProgress == TypeOK /\ Progress /\ [Next]_vars => Progress'
<1> SUFFICES ASSUME TypeOK, Progress, [Next]_vars PROVE Progress'
  OBVIOUS
<1>1. ASSUME NEW c \in Calls, NEW isSync \in BOOLEAN, NEW hasDefault \in BOOLEAN,
             Begin(c, isSync, hasDefault)
      PROVE  Progress'
  BY <1>1, BeginProgress
<1>2. ASSUME NEW c \in Calls, RunAround(c) \/ RunMain(c) PROVE Progress'
  BY <1>2, RunAccounted, RunAroundWrapped, RunMainWrapped DEF Progress
<1>3. ASSUME NEW c \in Calls, Skip(c) \/ Return(c) \/ VisitEnds(c) PROVE Progress'
  BY <1>3, OtherProgress
<1>4. CASE UNCHANGED <<stage, todo, below, done, found, ran, nested>>
  BY <1>4, OtherProgress
<1> QED
  BY <1>1, <1>2, <1>3, <1>4 DEF Next, CallStep, On, Off, Clear, vars

(* The invariant of the calls: what a call found is still to be done or has been
   done once (Hooks.getHandlers, run). *)
THEOREM ProgressHolds == Spec => []Progress
<1>1. Init => Progress
  BY InitProgress
<1>2. TypeOK /\ Progress /\ [Next]_vars => Progress'
  BY StepProgress
<1> QED
  BY <1>1, <1>2, TypeCorrect, PTL DEF Spec

(* Handlers come and go during a call; those it found run once each. *)
THEOREM EachRunsOnce == Spec => []NoneLost
<1>1. Progress => NoneLost
  <2> SUFFICES ASSUME Progress, NEW c \in Calls, stage[c] = "returned", ~done[c],
                      NEW r \in found[c], r.kind # "replace"
               PROVE  Cardinality({i \in DOMAIN ran[c] : ran[c][i] = r}) = 1
    BY DEF NoneLost
  <2>1. PICK i : Times(c, r) = {i}
    BY DEF Progress, Accounted
  <2> QED
    BY <2>1, FS_Singleton DEF Times
<1> QED
  BY <1>1, ProgressHolds, PTL

(* No replacing handler is bypassed on the way to the default handler. *)
THEOREM DefaultIsWrapped == Spec => []ReplacersWrapDefault
<1>1. Progress => ReplacersWrapDefault
  BY DEF Progress
<1> QED
  BY <1>1, ProgressHolds, PTL

-----------------------------------------------------------------------------
(* The order of a call *)

InOrder(a, b) ==
    \/ Rank(a) < Rank(b)
    \/ Rank(a) = Rank(b) /\ a.priority =< b.priority

(* What has run is in order, and nothing of what is to come belongs before it. *)
Ordered ==
    \A c \in Calls :
        /\ \A i, j \in DOMAIN ran[c] : i < j => InOrder(ran[c][i], ran[c][j])
        /\ \A i \in DOMAIN ran[c], q \in todo[c] : InOrder(ran[c][i], q)

(* The sort respects stages and priorities. *)
LEMMA PrecedesInOrder ==
    ASSUME NEW a \in Registrations \cup {Default},
           NEW b \in Registrations \cup {Default}, Precedes(a, b)
    PROVE  InOrder(a, b)
<1>1. a.priority \in Int /\ b.priority \in Int
  BY RegistrationFields DEF Default
<1> QED
  BY <1>1 DEF Precedes, Sorted, InOrder

(* A handler that runs is the foremost of those still to run. *)
LEMMA RunOrdered ==
    ASSUME TypeOK, Ordered, NEW c \in Calls, RunAround(c) \/ RunMain(c)
    PROVE  Ordered'
<1>1. PICK r \in Foremost(todo[c]) :
         /\ ran' = [ran EXCEPT ![c] = Append(@, r)]
         /\ \/ todo' = [todo EXCEPT ![c] = todo[c] \ {r}]
            \/ todo' = [todo EXCEPT ![c] = {}]
  BY DEF RunAround, RunMain, RunHandler, Rest
<1>2. /\ r \in todo[c]
      /\ \A q \in todo[c] \ {r} : Precedes(r, q)
      /\ todo[c] \subseteq Registrations \cup {Default}
  BY <1>1 DEF Foremost, TypeOK
<1>3. /\ ran[c] \in Seq(Registrations \cup {Default})
      /\ ran'[c] = Append(ran[c], r)
      /\ todo'[c] \subseteq todo[c] \ {r}
      /\ \A d \in Calls : d # c => ran'[d] = ran[d] /\ todo'[d] = todo[d]
  BY <1>1 DEF TypeOK
<1>4. \A q \in todo'[c] : InOrder(r, q)
  BY <1>2, <1>3, PrecedesInOrder
<1>5. /\ \A i \in DOMAIN ran'[c] :
            \/ i \in DOMAIN ran[c] /\ ran'[c][i] = ran[c][i]
            \/ i = Len(ran[c]) + 1 /\ ran'[c][i] = r
      /\ \A i \in DOMAIN ran[c] : i \in Nat /\ i =< Len(ran[c])
      /\ Len(ran[c]) \in Nat
  BY <1>2, <1>3
<1>6. \A i, j \in DOMAIN ran'[c] : i < j => InOrder(ran'[c][i], ran'[c][j])
  BY <1>2, <1>5 DEF Ordered
<1>7. \A i \in DOMAIN ran'[c], q \in todo'[c] : InOrder(ran'[c][i], q)
  BY <1>3, <1>4, <1>5 DEF Ordered
<1> QED
  BY <1>3, <1>6, <1>7 DEF Ordered

(* Every step preserves the order of the calls. *)
LEMMA StepOrdered == TypeOK /\ Accounted /\ Ordered /\ [Next]_vars => Ordered'
<1> SUFFICES ASSUME TypeOK, Accounted, Ordered, [Next]_vars PROVE Ordered'
  OBVIOUS
<1>1. ASSUME NEW c \in Calls, NEW isSync \in BOOLEAN, NEW hasDefault \in BOOLEAN,
             Begin(c, isSync, hasDefault)
      PROVE  Ordered'
  <2>1. /\ ran' = ran /\ ran[c] = <<>>
        /\ \A d \in Calls : d # c => todo'[d] = todo[d]
    BY <1>1 DEF Begin, Accounted, TypeOK
  <2> QED
    BY <2>1 DEF Ordered
<1>2. ASSUME NEW c \in Calls, RunAround(c) \/ RunMain(c) PROVE Ordered'
  BY <1>2, RunOrdered
<1>3. ASSUME NEW c \in Calls, Skip(c) \/ Return(c) \/ VisitEnds(c) PROVE Ordered'
  <2>1. ran' = ran /\ \A d \in Calls : todo'[d] \subseteq todo[d]
    BY <1>3 DEF Skip, Return, VisitEnds, TypeOK
  <2> QED
    BY <2>1 DEF Ordered
<1>4. CASE UNCHANGED <<todo, ran>>
  BY <1>4 DEF Ordered
<1> QED
  BY <1>1, <1>2, <1>3, <1>4 DEF Next, CallStep, On, Off, Clear, vars

(* Stages and priorities are respected however the ledger changes meanwhile. *)
THEOREM OrderIsKept == Spec => []RunsInOrder
<1>1. Init => Ordered
  BY DEF Init, Ordered
<1>2. Progress => Accounted
  BY DEF Progress
<1>3. TypeOK /\ Accounted /\ Ordered /\ [Next]_vars => Ordered'
  BY StepOrdered
<1>4. Ordered => RunsInOrder
  BY DEF Ordered, InOrder, RunsInOrder
<1> QED
  BY <1>1, <1>2, <1>3, <1>4, TypeCorrect, ProgressHolds, PTL DEF Spec
=============================================================================
