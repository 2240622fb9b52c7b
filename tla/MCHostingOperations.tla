------------------------ MODULE MCHostingOperations ------------------------
(* Bounds of the search: four operations of one binding with routes and    *)
(* single attempts, or two with every disturbance and second attempts, or  *)
(* three of two bindings that compete for ports.                           *)
EXTENDS HostingOperations

VARIABLE search   \* which of the three this behaviour is

Created == {o \in Op : state[o] # "absent"}

Bound == {bind[o] : o \in Created}

Undisturbed == granted = Binding /\ runnerActive /\ restoreHeld = {} /\ requested = {}

SingleAttempts == \A o \in Op : tries[Main(o)] <= 1

NoLapse == \A t \in Task : lease[t] # "lapsed"

InSequence ==
    /\ Cardinality(Bound) <= 1 /\ Undisturbed /\ SingleAttempts /\ NoLapse
    /\ Cardinality({o \in Created : state[o] \in {"failed", "canceled"}}) <= 1

Disturbed ==
    /\ Cardinality(Bound) <= 1 /\ Cardinality(Created) <= 2 /\ referenced = {}
    /\ (Binding \ granted) \subseteq Bound /\ (granted = Binding \/ runnerActive)
    /\ Cardinality({o \in Op : tries[Main(o)] > 1}) <= 1
    /\ \A o \in Op : port[o] \in {0, 1}

SideBySide ==
    /\ Cardinality(Created) <= 3 /\ Undisturbed /\ SingleAttempts /\ referenced = {}
    /\ NoLapse

(* Operations and bindings are interchangeable: numbers are taken in turn. *)
InTurn ==
    /\ Created = 1 .. Cardinality(Created)
    /\ Bound = 1 .. Cardinality(Bound)

Explored ==
    /\ InTurn
    /\ CASE search = "sequence" -> InSequence
         [] search = "disturbed" -> Disturbed
         [] search = "beside" -> SideBySide

MCInit == Init /\ search \in {"sequence", "disturbed", "beside"}

MCSpec == MCInit /\ [][Next /\ UNCHANGED search]_<<vars, search>>
=============================================================================
