-------------------------------- MODULE Content --------------------------------
(***************************************************************************)
(* What visits do to the document: the animation classes they put on their  *)
(* targets and take off again, the containers they replace and the title.   *)
(* Every step is a step of Navigation and what its default handlers do to   *)
(* the document meanwhile.                                                  *)
(*                                                                          *)
(* The targets are those of swup.visit, whichever visit calls.  All visits  *)
(* have the same scope and the same containers, those of the options.       *)
(* Default handlers run where Navigation places them when no handler waits, *)
(* aborts or throws (HandledHooks is empty): the visits they run for are    *)
(* not done.  Persisted elements and scrolling are left out.                *)
(***************************************************************************)
EXTENDS Navigation

CONSTANTS
    Containers,  \* options.containers
    Kinds        \* the kinds of visits: animated or not, with a named animation
                 \* or not, from a popstate event or not

ASSUME KindsAssumption ==
    Kinds \subseteq [animate : BOOLEAN, named : BOOLEAN, popstate : BOOLEAN]
ASSUME ContainersAssumption == "html" \notin Containers
ASSUME HandlersAssumption == HandledHooks = {}

VARIABLES
    scope,    \* options.animationScope
    kind,     \* kind[v]: what kind of visit v is
    classes,  \* classes[e]: the classes of swup on the element
    content,  \* content[c]: the visit that the content of the container is from
    title     \* the visit that the title is from

options == <<scope, kind>>
page_ == <<classes, content, title>>
document == <<vars, options, page_>>

SwupClasses ==
    {"to-", "is-changing", "is-rendering", "is-popstate", "is-animating",
     "is-leaving"}

Elements == {"html"} \cup Containers

(* A bug to detect: the containers are marked in any case. *)
TargetsBoth == IF scope = "html" THEN Elements ELSE Containers

(* Classes.targets *)
Targets == IF scope = "html" THEN {"html"} ELSE Containers

(* Classes.add(), .remove() and .clear(), applied to the classes cs *)
Added(cs, names) ==
    [e \in Elements |-> IF e \in Targets THEN cs[e] \cup names ELSE cs[e]]

Removed(cs, names) ==
    [e \in Elements |-> IF e \in Targets THEN cs[e] \ names ELSE cs[e]]

(* A bug to detect: the names are compared whole. *)
ClearedWhole(cs) == Removed(cs, SwupClasses \ {"to-"})

Cleared(cs) == Removed(cs, SwupClasses)

Named(v) == IF kind[v].named THEN {"to-"} ELSE {}

-----------------------------------------------------------------------------
(* A bug to detect: an animated visit cleans up. *)
CleanUpAnimated(v) ==
    classes' = IF kind[v].animate THEN Cleared(classes) ELSE classes

(* "Clean up old animation classes", when v takes the lock *)
CleanUp(v) ==
    classes' = IF kind[v].animate THEN classes ELSE Cleared(classes)

RequestPage(v) ==
    /\ Request(v)
    /\ IF navigating THEN UNCHANGED classes ELSE CleanUp(v)
    /\ UNCHANGED <<options, content, title>>

TakeOverPage(v) ==
    /\ TakeOver(v)
    /\ CleanUp(v)
    /\ UNCHANGED <<options, content, title>>

(* "Mark visit type with classes" *)
StartPage(v) ==
    /\ Start(v)
    /\ classes' = Added(classes, Named(v) \cup
          IF kind[v].popstate THEN {"is-popstate"} ELSE {})
    /\ UNCHANGED <<options, content, title>>

(* animation:out:start of an animated visit *)
TransitionPage(v) ==
    /\ Transition(v)
    /\ \/ Done(v) /\ UNCHANGED classes
       \/ /\ ~Done(v)
          /\ animated'[v] = kind[v].animate
          /\ classes' = IF kind[v].animate
                THEN Added(classes, {"is-changing", "is-animating", "is-leaving"})
                ELSE classes
    /\ UNCHANGED <<options, content, title>>

(* A bug to detect: is-leaving stays. *)
OutgoingLeaving(v) ==
    IF kind[v].animate THEN Added(classes, {"is-rendering"}) ELSE classes

(* The classes just before the containers are replaced *)
Outgoing(v) ==
    LET left == Removed(classes, {"is-leaving"})
    IN  IF kind[v].animate THEN Added(left, {"is-rendering"}) ELSE left

(* A bug to detect: one container is enough. *)
SucceedsAny(missing) == missing # Containers

(* "Whether all containers were replaced", of those missing on the new page *)
Succeeds(missing) == missing = {}

(* The default handler of content:replace.  The new containers have no classes
   yet.  Those on the new page and the title are replaced in any case. *)
ReplacePage(v) ==
    /\ doc[v]
    /\ \E missing \in SUBSET Containers :
          LET fresh == [e \in Elements |->
                  IF e \in Containers \ missing THEN {} ELSE Outgoing(v)[e]]
              marks == {"is-changing", "is-animating", "is-rendering"}
          IN  /\ title' = v
              /\ content' = [c \in Containers |->
                                IF c \in missing THEN content[c] ELSE v]
              /\ IF Succeeds(missing)
                 THEN /\ Replace(v)
                      /\ classes' = IF kind[v].animate
                                    THEN Added(fresh, marks \cup Named(v))
                                    ELSE fresh
                 ELSE /\ ContainerMismatch(v)
                      /\ classes' = fresh
    /\ UNCHANGED options

(* animation:in:start, some time during the in animation *)
EnteredPage(v) ==
    /\ Entered(v)
    /\ classes' = Removed(classes, {"is-animating"})
    /\ UNCHANGED <<options, content, title>>

(* visit:end clears the classes; a queued visit finds nothing to clean up. *)
CompletePage(v) ==
    /\ Complete(v)
    /\ classes' = Cleared(classes)
    /\ UNCHANGED <<options, content, title>>

(* The steps that do not touch the document *)
OtherPage(v) ==
    \/ Wait(v)
    \/ Leave(v)
    \/ Enter(v)
    \/ Rendered(v)
    \/ PageRejects(v)
    \/ LoaderStep(v)

-----------------------------------------------------------------------------
ContentInit ==
    /\ Init
    /\ scope \in {"html", "containers"}
    /\ kind \in [Visits -> Kinds]
    /\ classes = [e \in Elements |-> {}]
    /\ content = [c \in Containers |-> NoVisit]
    /\ title = NoVisit

ContentStep(v) ==
    \/ RequestPage(v)
    \/ TakeOverPage(v)
    \/ StartPage(v)
    \/ TransitionPage(v)
    \/ ReplacePage(v)
    \/ EnteredPage(v)
    \/ CompletePage(v)
    \/ OtherPage(v) /\ UNCHANGED <<options, page_>>

ContentNext ==
    \/ \E v \in Visits : ContentStep(v)
    \/ FallbackLoad /\ UNCHANGED <<options, page_>>

ContentSpec == ContentInit /\ [][ContentNext]_document

-----------------------------------------------------------------------------
(* Properties *)

(* The types of the document; only targets ever have classes. *)
ContentTypeOK ==
    /\ scope \in {"html", "containers"}
    /\ kind \in [Visits -> Kinds]
    /\ classes \in [Elements -> SUBSET SwupClasses]
    /\ \A e \in Elements : classes[e] # {} => (e = "html") = (scope = "html")
    /\ content \in [Containers -> Visits \cup {NoVisit}]
    /\ title \in Visits \cup {NoVisit}

(* When swup is idle, no class of any visit is left on any element, whichever
   visits were superseded half way (navigate.ts:207). *)
IdleIsUnmarked ==
    ~navigating => \A e \in Elements : classes[e] = {}

(* Once a visit without an animation runs, the elements show no trace of the
   animated one that it has superseded ("Clean up old animation classes",
   navigate.ts:94): nothing would ever end that animation. *)
PlainIsUnmarked ==
    \A v \in Visits :
        Live(v) /\ ~kind[v].animate =>
            \A e \in Elements :
                classes[e] \subseteq {"is-popstate"} \cup Named(v)

(* An element is leaving or rendering, never both at once: is-leaving stays
   "until right before replacing the content"
   (tests/functional/animation-classes.spec.ts:6). *)
LeavingOrRendering ==
    \A e \in Elements : ~ {"is-leaving", "is-rendering"} \subseteq classes[e]

(* The containers and the title on the page are all from the visit shown last,
   unless one has failed and its URL is going to be loaded: a page is never put
   together from two visits for good (renderPage.ts:32). *)
PageIsWhole ==
    fallback = NoVisit => title = shown /\ \A c \in Containers : content[c] = shown

(* "Mark visit type with classes" (navigate.ts:165): from visit:start on, an
   is-popstate class is that of the visit that runs. *)
MarksOwnType ==
    \A v \in Visits :
        Live(v) /\ pc[v] # "starting" /\ ~kind[v].popstate =>
            \A e \in Elements : "is-popstate" \notin classes[e]
=============================================================================
