------------------------------- MODULE Capability -------------------------------
(***************************************************************************)
(* Capability strings: component:action, or component:action@scope, over   *)
(* bytes.  Parse reads one from the left as the code does; Means says what *)
(* a grant is for without reading either string.                           *)
(***************************************************************************)
EXTENDS Integers, Sequences

Seqs == INSTANCE SequencesExt

CONSTANTS
    Colon, At,   \* the two separators
    Names,       \* bound: the components, actions and scopes Means looks at
    NoCap, NoScope

\* The two markers are no capability and no scope.
ASSUME MarkersAssumption ==
    /\ NoScope \notin Seq(Int)
    /\ NoCap \notin [component : Seq(Int), action : Seq(Int), scope : Seq(Int) \cup {NoScope}]

Has(s, b) == \E i \in DOMAIN s : s[i] = b

\* str::split_once, where s has the separator.
Before(s, b) == SubSeq(s, 1, Seqs!SelectInSeq(s, LAMBDA x : x = b) - 1)
After(s, b) == SubSeq(s, Seqs!SelectInSeq(s, LAMBDA x : x = b) + 1, Len(s))

Clean(p) == p # <<>> /\ ~Has(p, Colon) /\ ~Has(p, At)

Parse(s) ==
    LET rest == After(s, Colon)
        cap == [component |-> Before(s, Colon),
                action |-> IF Has(rest, At) THEN Before(rest, At) ELSE rest,
                scope |-> IF Has(rest, At) THEN After(rest, At) ELSE NoScope]
    IN  IF /\ Has(s, Colon)
           /\ Clean(cap.component) /\ Clean(cap.action)
           /\ cap.scope = NoScope \/ Clean(cap.scope)
        THEN cap ELSE NoCap

\* (variant: an unscoped need is met in any scope)
SatisfiesEither(g, n) ==
    g.component = n.component /\ g.action = n.action
    /\ (NoScope \in {g.scope, n.scope} \/ g.scope = n.scope)

Satisfies(g, n) ==
    g.component = n.component /\ g.action = n.action
    /\ (g.scope = NoScope \/ g.scope = n.scope)

AnySatisfies(grants, needed) ==
    /\ Parse(needed) # NoCap
    /\ \E i \in DOMAIN grants : /\ Parse(grants[i]) # NoCap
                                /\ Satisfies(Parse(grants[i]), Parse(needed))

-----------------------------------------------------------------------------
Unscoped(c, a) == c \o <<Colon>> \o a
Scoped(c, a, s) == Unscoped(c, a) \o <<At>> \o s

\* What the doc says: the same component and action, and no scope or the same.
Means(grant, needed) ==
    \E c, a \in Names :
        \/ /\ grant = Unscoped(c, a)
           /\ needed = Unscoped(c, a) \/ \E s \in Names : needed = Scoped(c, a, s)
        \/ grant = needed /\ \E s \in Names : needed = Scoped(c, a, s)
=============================================================================
