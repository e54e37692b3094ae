------------------------ MODULE LessonDeliveryProofs ------------------------
(***************************************************************************)
(* What a prompt is shown of the lessons, for any number of documents,     *)
(* prompts, writers and contexts.                                          *)
(*                                                                         *)
(* A lesson is withheld only where it arrived (WithheldWasDelivered). The  *)
(* property says nothing of the emission log, which is what a later prompt *)
(* reads: the invariant adds that all that is in the log, was read from    *)
(* it, or is about to be logged has arrived.                               *)
(*                                                                         *)
(* A block is an old projection by the time a prompt reads it, so what is  *)
(* needed of it is proved of projections: a group has a first key, which   *)
(* its index line names (EveryLessonNamed), and no two groups have the     *)
(* same rank, so no more sections are kept than the file has room for      *)
(* (DeliveryTypeOK).                                                       *)
(***************************************************************************)
EXTENDS LessonDelivery, FiniteSetTheorems, FunctionTheorems, WellFoundedInduction, TLAPS

Arrived(D, c) == \A d \in D : <<d, c>> \in delivered

\* The prompt's state has its fields; of their types nothing is needed.
Shaped(r) ==
    r = [pc |-> r.pc, context |-> r.context, cutoff |-> r.cutoff, prior |-> r.prior,
         covered |-> r.covered, shown |-> r.shown, block |-> r.block,
         withheld |-> r.withheld, chosen |-> r.chosen]

Sound(r) ==
    /\ Arrived(r.prior, r.context)
    /\ Arrived(r.withheld, r.context)
    /\ r.pc = "marking" => Arrived(r.chosen, r.context)

DeliveryInv ==
    /\ hook = [h \in Hooks |-> hook[h]]
    /\ \A h \in Hooks : Shaped(hook[h]) /\ Sound(hook[h])
    /\ emitted \subseteq delivered

LEMMA IdleIsSound == Shaped(HookIdle) /\ Sound(HookIdle)
BY DEF HookIdle, Shaped, Sound, Arrived

\* A step of one prompt that loses no delivery leaves the others sound.
LEMMA OneHookMoves ==
    ASSUME DeliveryInv, NEW h \in Hooks, hook' = [hook EXCEPT ![h] = hook'[h]],
           Shaped(hook[h])', Sound(hook[h])',
           delivered \subseteq delivered', emitted' \subseteq delivered'
    PROVE  DeliveryInv'
<1>1. hook' = [g \in Hooks |-> hook'[g]]
  BY DEF DeliveryInv
<1>2. ASSUME NEW g \in Hooks, g # h
      PROVE  Shaped(hook[g])' /\ Sound(hook[g])'
  <2>1. hook'[g] = hook[g]
    BY <1>2 DEF DeliveryInv
  <2> QED BY <1>2, <2>1 DEF DeliveryInv, Shaped, Sound, Arrived
<1> QED BY <1>1, <1>2 DEF DeliveryInv

LEMMA HookStepKeeps ==
    ASSUME DeliveryInv, NEW h \in Hooks, HookStep(h)
    PROVE  DeliveryInv'
<1> USE DEF HookKeeps, At
<1>0. /\ Shaped(hook[h]) /\ Sound(hook[h]) /\ emitted \subseteq delivered
      /\ DOMAIN hook = Hooks
  BY DEF DeliveryInv
<1>1. CASE \E c \in Contexts : Begin(h, c)
  <2> PICK c \in Contexts : Begin(h, c)
    BY <1>1
  <2>1. hook'[h] = [HookIdle EXCEPT !.pc = "reading", !.context = c, !.cutoff = Len(published),
                                    !.prior = {d \in Documents : <<d, c>> \in emitted}]
    BY <1>0 DEF Begin
  <2>2. /\ hook'[h].pc = "reading" /\ hook'[h].context = c /\ hook'[h].withheld = {}
        /\ hook'[h].prior = {d \in Documents : <<d, c>> \in emitted}
        /\ Shaped(hook[h])'
    BY <2>1 DEF HookIdle, Shaped
  <2>3. Sound(hook[h])'
    BY <1>0, <2>2 DEF Sound, Arrived, Begin
  <2> QED BY <1>0, <2>2, <2>3, OneHookMoves DEF Begin
<1>2. CASE ReadProjectRulesBlock(h)
  <2> PICK touched, shown :
          hook' = [hook EXCEPT ![h].pc = "selecting", ![h].block = file,
                               ![h].covered = Covered(touched, shown), ![h].shown = shown]
    BY <1>2 DEF ReadProjectRulesBlock
  <2>1. hook'[h] = [hook[h] EXCEPT !.pc = "selecting", !.block = file,
                                   !.covered = Covered(touched, shown), !.shown = shown]
    BY <1>0
  <2>2. /\ hook'[h].pc = "selecting" /\ hook'[h].context = hook[h].context
        /\ hook'[h].withheld = hook[h].withheld /\ hook'[h].prior = hook[h].prior
        /\ Shaped(hook[h])'
    BY <1>0, <2>1 DEF Shaped
  <2>3. Sound(hook[h])'
    BY <1>0, <1>2, <2>2 DEF Sound, Arrived, ReadProjectRulesBlock
  <2>4. hook' = [hook EXCEPT ![h] = hook'[h]]
    BY <1>0, <2>1
  <2> QED BY <1>0, <1>2, <2>2, <2>3, <2>4, OneHookMoves DEF ReadProjectRulesBlock
<1>3. CASE SelectReflections(h)
  <2> PICK projected, chosen :
          hook' = [hook EXCEPT ![h] =
              [pc |-> "answering", context |-> hook[h].context, cutoff |-> 0, prior |-> {},
               covered |-> {}, shown |-> hook[h].shown, block |-> NoBlock,
               withheld |-> projected \cap hook[h].prior, chosen |-> chosen]]
    BY <1>3, Zenon DEF SelectReflections
  <2>1. hook'[h] =
            [pc |-> "answering", context |-> hook[h].context, cutoff |-> 0, prior |-> {},
             covered |-> {}, shown |-> hook[h].shown, block |-> NoBlock,
             withheld |-> projected \cap hook[h].prior, chosen |-> chosen]
    BY <1>0
  <2>2. Shaped(hook[h])' /\ Sound(hook[h])'
    BY <1>0, <1>3, <2>1 DEF Shaped, Sound, Arrived, SelectReflections
  <2> QED BY <1>0, <1>3, <2>1, <2>2, OneHookMoves DEF SelectReflections
<1>4. CASE Respond(h)
  <2>1. hook'[h] = [HookIdle EXCEPT
              !.pc = "marking", !.context = hook[h].context, !.chosen = hook[h].chosen]
    BY <1>0, <1>4 DEF Respond
  <2>2. /\ hook'[h].context = hook[h].context /\ hook'[h].chosen = hook[h].chosen
        /\ hook'[h].withheld = {} /\ hook'[h].prior = {}
        /\ Shaped(hook[h])'
    BY <2>1 DEF HookIdle, Shaped
  <2>3. Sound(hook[h])'
    BY <1>4, <2>2 DEF Sound, Arrived, Respond
  <2> QED BY <1>0, <1>4, <2>1, <2>2, <2>3, OneHookMoves DEF Respond
<1>5. CASE Leave(h)
  <2>1. hook'[h] = HookIdle /\ emitted' = emitted /\ delivered' = delivered
    BY <1>0, <1>5 DEF Leave
  <2>2. Shaped(hook[h])' /\ Sound(hook[h])'
    BY <2>1, IdleIsSound DEF HookIdle, Shaped, Sound, Arrived
  <2> QED BY <1>0, <1>5, <2>1, <2>2, OneHookMoves DEF Leave
<1>6. CASE \E d \in Documents : MarkEmitted(h, d)
  <2> PICK d \in Documents : MarkEmitted(h, d)
    BY <1>6
  <2>1. hook[h].pc = "marking" /\ d \in hook[h].chosen /\ delivered' = delivered
    BY DEF MarkEmitted, Markable
  <2>2. hook'[h] = [hook[h] EXCEPT !.chosen = @ \ {d}]
    BY <1>0 DEF MarkEmitted
  <2>3. /\ hook'[h].pc = hook[h].pc /\ hook'[h].context = hook[h].context
        /\ hook'[h].chosen = hook[h].chosen \ {d}
        /\ hook'[h].withheld = hook[h].withheld /\ hook'[h].prior = hook[h].prior
        /\ Shaped(hook[h])'
    BY <1>0, <2>2 DEF Shaped
  <2>4. Sound(hook[h])'
    BY <1>0, <2>1, <2>3 DEF Sound, Arrived
  <2>5. emitted' \subseteq delivered'
    BY <1>0, <2>1 DEF Sound, Arrived, MarkEmitted
  <2>6. hook' = [hook EXCEPT ![h] = hook'[h]]
    BY <1>0, <2>2 DEF MarkEmitted
  <2> QED BY <2>1, <2>3, <2>4, <2>5, <2>6, OneHookMoves
<1> QED BY <1>1, <1>2, <1>3, <1>4, <1>5, <1>6 DEF HookStep

LEMMA NoHookMoves ==
    ASSUME DeliveryInv, UNCHANGED <<hook, emitted, delivered>>
    PROVE  DeliveryInv'
BY DEF DeliveryInv, Shaped, Sound, Arrived

LEMMA DeliveryNextKeeps == DeliveryInv /\ [DeliveryNext]_vars => DeliveryInv'
<1> SUFFICES ASSUME DeliveryInv, [DeliveryNext]_vars PROVE DeliveryInv'
  OBVIOUS
<1>1. CASE (\E d \in Documents : Publish(d)) \/ (\E k \in Keys : Recur(k))
  BY <1>1, NoHookMoves DEF Publish, Recur
<1>2. CASE \E w \in Writers : WriterStep(w)
  BY <1>2, NoHookMoves DEF WriterStep, Project, AlreadyCurrent, Truncate, Fill, WriterKilled
<1>3. CASE \E h \in Hooks : HookStep(h)
  BY <1>3, HookStepKeeps
<1>4. CASE UNCHANGED vars
  BY <1>4, NoHookMoves DEF vars
<1> QED BY <1>1, <1>2, <1>3, <1>4 DEF DeliveryNext

\* A document is withheld from a prompt only if a response the host received in the same
\* context had it, whoever was killed in between (WithheldWasDelivered).
THEOREM NothingIsLost == DeliverySpec => []WithheldWasDelivered
<1>1. DeliveryInit => DeliveryInv
  BY IdleIsSound DEF DeliveryInit, DeliveryInv, Sound, Shaped, Arrived
<1>2. DeliveryInv => WithheldWasDelivered
  BY DEF DeliveryInv, Sound, Arrived, WithheldWasDelivered
<1> QED BY <1>1, <1>2, DeliveryNextKeeps, PTL DEF DeliverySpec

----------------------------------------------------------------------------
(* What a block is built from. *)

\* The documents are published once, and only published ones have a key.
StoreOK ==
    /\ published \in Seq(Documents)
    /\ \A i, j \in DOMAIN published : published[i] = published[j] => i = j
    /\ keyed \subseteq Published /\ recurred \in [Keys -> 0..MaxRecur]

LEMMA NatMinimum ==
    ASSUME NEW T, T \subseteq Nat, T # {}
    PROVE  \E x \in T : \A y \in T : x <= y
<1> DEFINE R == OpToRel(<, Nat)
<1>1. IsWellFoundedOn(R, Nat)
  BY NatLessThanWellFounded
<1> HIDE DEF R
<1>2. PICK x \in T : \A y \in T : <<y, x>> \notin R
  BY <1>1, WFMin
<1>3. \A y \in T : ~(y < x)
  <2>1. \A m, n \in Nat : m < n => <<m, n>> \in R
    BY DEF R, OpToRel
  <2> QED BY <1>2, <2>1
<1> QED BY <1>2, <1>3

\* The store's order of the keys of a group has a first one.
LEMMA FirstKeyIsOne ==
    ASSUME StoreOK, NEW G, G \subseteq Keys, G # {}
    PROVE  FirstKey(G) \in G
<1>1. Keys \subseteq Nat /\ MaxRecur \in Nat /\ \A k \in G : recurred[k] \in 0..MaxRecur
  BY DeliveryAssumption DEF StoreOK
<1>2. PICK m \in G : \A k \in G : recurred[m] >= recurred[k]
  <2> DEFINE T == {n \in Nat : \E k \in G : n = MaxRecur - recurred[k]}
  <2>1. \A k \in G : MaxRecur - recurred[k] \in T
    BY <1>1
  <2>2. PICK x \in T : \A y \in T : x <= y
    <3>1. T \subseteq Nat /\ T # {}
      BY <2>1
    <3> HIDE DEF T
    <3> QED BY <3>1, NatMinimum
  <2>3. PICK m \in G : x = MaxRecur - recurred[m]
    OBVIOUS
  <2>4. ASSUME NEW k \in G PROVE recurred[m] >= recurred[k]
    <3>1. x <= MaxRecur - recurred[k]
      BY <2>1, <2>2
    <3> QED BY <1>1, <2>3, <3>1
  <2> QED BY <2>4
<1> DEFINE E == {k \in G : recurred[k] = recurred[m]}
<1>3. PICK f \in E : \A k \in E : f <= k
  <2>1. E \subseteq Nat /\ E # {}
    BY <1>1
  <2> HIDE DEF E
  <2> QED BY <2>1, NatMinimum
<1>4. \A l \in G : f = l \/ recurred[f] > recurred[l] \/ (recurred[f] = recurred[l] /\ f < l)
  BY <1>1, <1>2, <1>3
<1> QED BY <1>3, <1>4 DEF FirstKey

\* Publication orders the documents.
LEMMA PublicationOrders ==
    ASSUME StoreOK, NEW d \in Published, NEW e \in Published
    PROVE  /\ d = e \/ Before(d, e) \/ Before(e, d)
           /\ ~(Before(d, e) /\ Before(e, d)) /\ ~Before(d, d)
           /\ \A x \in Published : Before(d, e) /\ Before(e, x) => Before(d, x)
BY DEF StoreOK, Published, Before

\* Of any published documents one is the newest.
LEMMA OneIsNewest ==
    ASSUME StoreOK, NEW D, D \subseteq Published, D # {}
    PROVE  \E d \in D : \A e \in D : e = d \/ Before(e, d)
<1> DEFINE I == {i \in DOMAIN published : published[i] \in D}
           T == {n \in Nat : \E i \in I : n = Len(published) - i}
<1>1. DOMAIN published = 1..Len(published) /\ Len(published) \in Nat
  BY DEF StoreOK
<1>2. T \subseteq Nat /\ T # {} /\ \A i \in I : Len(published) - i \in T
  <2>1. \A i \in I : Len(published) - i \in T
    BY <1>1
  <2> QED BY <2>1 DEF Published
<1>3. PICK x \in T : \A y \in T : x <= y
  <2> HIDE DEF T
  <2> QED BY <1>2, NatMinimum
<1>4. PICK i \in I : x = Len(published) - i
  BY <1>3
<1>5. ASSUME NEW j \in I PROVE j <= i
  <2>1. x <= Len(published) - j
    BY <1>2, <1>3
  <2> QED BY <1>1, <1>4, <2>1
<1>6. ASSUME NEW e \in D PROVE e = published[i] \/ Before(e, published[i])
  <2> PICK j \in I : e = published[j]
    BY <1>6 DEF Published
  <2> QED BY <1>1, <1>5 DEF Before
<1> QED BY <1>4, <1>6

\* A family is printed by one document, and a group is the documents of one text.
LEMMA GroupsByText ==
    ASSUME StoreOK, NEW G \in Merged
    PROVE  /\ G \subseteq Keys /\ G # {}
           /\ \E x \in Qualified : Key(x) \in G
           /\ \A x, y \in Qualified : Key(x) \in G /\ Key(y) \in G => Lesson[x] = Lesson[y]
           /\ \A x, y \in Qualified : Key(x) \in G /\ Lesson[x] = Lesson[y] => Key(y) \in G
           /\ \A k \in G : \E x \in Qualified : k = Key(x)
<1>1. Qualified \subseteq Published /\ Published \subseteq Documents
  BY DEF Qualified, LatestPublished, StoreOK, Published
<1>2. \A x \in Qualified : Key(x) \in Keys
  BY <1>1, DeliveryAssumption DEF Key
<1>3. \A x, y \in Qualified : Key(x) = Key(y) => x = y
  BY <1>1, PublicationOrders DEF Qualified, LatestPublished
<1>4. PICK d \in Qualified : G = {Key(e) : e \in {x \in Qualified : Lesson[x] = Lesson[d]}}
  BY DEF Merged
<1> QED BY <1>2, <1>3, <1>4

----------------------------------------------------------------------------
(* The file keeps its bound: the groups are ranked one after the other, so  *)
(* no two have as many before them.                                         *)

Docs(G) == {x \in Qualified : Key(x) \in G}
Leader(G) == CHOOSE d \in Docs(G) : \A e \in Docs(G) : e = d \/ Before(e, d)

LEMMA RanksAreNumbers ==
    ASSUME StoreOK, NEW G \in Merged
    PROVE  /\ Worst(G) \in 0..2 /\ Occurrences(G) \in Nat
           /\ Leader(G) \in Docs(G) /\ \A e \in Docs(G) : e = Leader(G) \/ Before(e, Leader(G))
<1>1. Qualified \subseteq Published /\ Published \subseteq Documents
  BY DEF Qualified, LatestPublished, StoreOK, Published
<1>2. Docs(G) # {} /\ Docs(G) \subseteq Published /\ G \subseteq Keys
  BY <1>1, GroupsByText DEF Docs
<1>3. Worst(G) \in 0..2
  <2> DEFINE S == {Severity[d] : d \in {x \in Qualified : Key(x) \in G}}
  <2>1. S \subseteq 0..2 /\ S # {}
    BY <1>1, <1>2, DeliveryAssumption DEF Docs
  <2>2. \E x \in S : \A y \in S : x <= y
    <3>1. S \subseteq Nat
      BY <2>1
    <3> HIDE DEF S
    <3> QED BY <2>1, <3>1, NatMinimum
  <2>3. Min(S) \in S
    <3> HIDE DEF S
    <3> QED BY <2>2 DEF Min
  <2> QED BY <2>1, <2>3 DEF Worst
<1>4. Occurrences(G) \in Nat
  <2>1. IsFiniteSet(G) /\ IsFiniteSet(1..MaxRecur)
    <3>1. 1 \in Int /\ MaxRecur \in Int /\ IsFiniteSet(Keys)
      BY DeliveryAssumption
    <3>2. IsFiniteSet(1..MaxRecur)
      BY <3>1, FS_Interval
    <3> QED BY <1>2, <3>1, <3>2, FS_Subset
  <2>2. IsFiniteSet(G \X (1..MaxRecur))
    BY <2>1, FS_Product
  <2> DEFINE S == {complaint \in G \X (1..MaxRecur) : complaint[2] <= recurred[complaint[1]]}
  <2>3. S \subseteq G \X (1..MaxRecur)
    OBVIOUS
  <2>4. Cardinality(S) \in Nat
    <3> HIDE DEF S
    <3> QED BY <2>2, <2>3, FS_Subset, FS_CardinalityType
  <2> QED BY <2>4 DEF Occurrences
<1>5. \E d \in Docs(G) : \A e \in Docs(G) : e = d \/ Before(e, d)
  BY <1>2, OneIsNewest
<1> QED BY <1>3, <1>4, <1>5 DEF Leader

\* Recency compares the newest documents of two groups.
LEMMA RecencyByLeader ==
    ASSUME StoreOK, NEW G \in Merged, NEW H \in Merged, G # H
    PROVE  /\ Leader(G) # Leader(H) /\ Leader(G) \in Published /\ Leader(H) \in Published
           /\ Recent(G, H) <=> Before(Leader(H), Leader(G))
<1> DEFINE g == Leader(G)  h == Leader(H)
<1>1. /\ g \in Docs(G) /\ \A e \in Docs(G) : e = g \/ Before(e, g)
      /\ h \in Docs(H) /\ \A e \in Docs(H) : e = h \/ Before(e, h)
  BY RanksAreNumbers
<1>2. Docs(G) \subseteq Published /\ Docs(H) \subseteq Published
  BY DEF Docs, Qualified, LatestPublished, StoreOK
<1>3. Docs(G) \cap Docs(H) = {}
  <2> SUFFICES ASSUME NEW x, x \in Docs(G), x \in Docs(H) PROVE G = H
    OBVIOUS
  <2>1. x \in Qualified /\ Key(x) \in G /\ Key(x) \in H
    BY DEF Docs
  <2>2. ASSUME NEW k \in G PROVE k \in H
    BY <2>1, <2>2, GroupsByText
  <2>3. ASSUME NEW k \in H PROVE k \in G
    BY <2>1, <2>3, GroupsByText
  <2> QED BY <2>2, <2>3
<1>4. g # h
  BY <1>1, <1>3
<1> HIDE DEF g, h
<1>5. ASSUME Before(h, g) PROVE Recent(G, H)
  <2>1. ASSUME NEW x \in Qualified, Key(x) \in G \cup H PROVE x = g \/ Before(x, g)
    <3>1. CASE x \in Docs(G)
      BY <1>1, <3>1
    <3>2. CASE x \in Docs(H)
      BY <1>1, <1>2, <1>5, <3>2, PublicationOrders
    <3> QED BY <2>1, <3>1, <3>2 DEF Docs
  <2>2. g \in Qualified /\ Key(g) \in G /\ h \in Qualified /\ Key(h) \in H
    BY <1>1 DEF Docs
  <2> QED BY <2>1, <2>2 DEF Recent
<1>6. ASSUME Recent(G, H) PROVE Before(h, g)
  <2>1. PICK d \in Docs(G) : \A x \in Docs(G) \cup Docs(H) : x = d \/ Before(x, d)
    BY <1>6 DEF Recent, Docs
  <2>2. h = d \/ Before(h, d)
    BY <1>1, <2>1
  <2>3. Before(h, d) /\ (d = g \/ Before(d, g))
    BY <1>1, <1>3, <2>1, <2>2
  <2> QED BY <1>1, <1>2, <2>1, <2>3, PublicationOrders
<1> QED BY <1>1, <1>2, <1>4, <1>5, <1>6 DEF g, h

LEMMA OutranksOrders ==
    ASSUME StoreOK
    PROVE  /\ \A G, H \in Merged : G = H \/ Outranks(G, H) \/ Outranks(H, G)
           /\ \A G, H \in Merged : ~(Outranks(G, H) /\ Outranks(H, G))
           /\ \A G, H, K \in Merged : Outranks(G, H) /\ Outranks(H, K) => Outranks(G, K)
<1>1. \A G \in Merged : Worst(G) \in Int /\ Occurrences(G) \in Int /\ Leader(G) \in Published
  <2> TAKE G \in Merged
  <2>1. Docs(G) \subseteq Published
    BY DEF Docs, Qualified, LatestPublished, StoreOK
  <2> QED BY <2>1, RanksAreNumbers
<1>2. \A G, H \in Merged : G # H =>
          Leader(G) # Leader(H) /\ (Recent(G, H) <=> Before(Leader(H), Leader(G)))
  BY RecencyByLeader
<1>3. \A G, H \in Merged : Outranks(G, H) <=> G # H /\
          \/ Worst(G) < Worst(H)
          \/ Worst(G) = Worst(H) /\ Occurrences(G) > Occurrences(H)
          \/ /\ Worst(G) = Worst(H) /\ Occurrences(G) = Occurrences(H)
             /\ Before(Leader(H), Leader(G))
  BY <1>2 DEF Outranks
<1>4. \A G, H \in Merged : G # H =>
          /\ Before(Leader(G), Leader(H)) \/ Before(Leader(H), Leader(G))
          /\ ~(Before(Leader(G), Leader(H)) /\ Before(Leader(H), Leader(G)))
  BY <1>1, <1>2, PublicationOrders
<1>5. \A G, H, K \in Merged :
          Before(Leader(G), Leader(H)) /\ Before(Leader(H), Leader(K)) =>
              Before(Leader(G), Leader(K))
  BY <1>1, PublicationOrders
<1>6. \A G, H \in Merged : G = H \/ Outranks(G, H) \/ Outranks(H, G)
  BY <1>1, <1>3, <1>4
<1>7. \A G, H \in Merged : ~(Outranks(G, H) /\ Outranks(H, G))
  BY <1>1, <1>3, <1>4
<1>8. ASSUME NEW G \in Merged, NEW H \in Merged, NEW K \in Merged, Outranks(G, H), Outranks(H, K)
      PROVE  Outranks(G, K)
  <2>1. G # K
    BY <1>7, <1>8
  <2> QED BY <1>1, <1>3, <1>5, <1>8, <2>1
<1> QED BY <1>6, <1>7, <1>8

LEMMA SectionsFit ==
    ASSUME StoreOK
    PROVE  Cardinality(Fitting) <= FileRoom
<1> DEFINE Above(G) == {H \in Merged : Outranks(H, G)}
           rank == [G \in Fitting |-> Cardinality(Above(G))]
<1>1. IsFiniteSet(Merged)
  <2>1. Merged \subseteq SUBSET Keys
    BY GroupsByText
  <2> QED BY <2>1, DeliveryAssumption, FS_SUBSET, FS_Subset
<1>2. \A G : IsFiniteSet(Above(G)) /\ Cardinality(Above(G)) \in Nat
  <2> TAKE G
  <2>1. Above(G) \subseteq Merged
    OBVIOUS
  <2> HIDE DEF Above
  <2> QED BY <1>1, <2>1, FS_Subset, FS_CardinalityType
<1>3. ASSUME NEW G \in Merged, NEW H \in Merged, Outranks(G, H)
      PROVE  Cardinality(Above(G)) # Cardinality(Above(H))
  <2>1. Above(G) \subseteq Above(H) /\ G \in Above(H) /\ G \notin Above(G)
    BY <1>3, OutranksOrders
  <2> HIDE DEF Above
  <2>2. Cardinality(Above(G)) = Cardinality(Above(H)) => Above(H) = Above(G)
    BY <1>2, <2>1, FS_Subset
  <2> QED BY <2>1, <2>2
<1>4. Fitting = {G \in Merged : Cardinality(Above(G)) < FileRoom} /\ FileRoom \in Nat
  BY DeliveryAssumption DEF Fitting
<1> HIDE DEF Above
<1>5. rank \in [Fitting -> 0..(FileRoom - 1)]
  BY <1>2, <1>4
<1>6. \A G, H \in Fitting : rank[G] = rank[H] => G = H
  BY <1>3, <1>4, OutranksOrders
<1>7. rank \in Injection(Fitting, 0..(FileRoom - 1))
  <2> HIDE DEF rank
  <2> QED BY <1>5, <1>6 DEF Injection, IsInjective
<1>8. IsFiniteSet(0..(FileRoom - 1)) /\ Cardinality(0..(FileRoom - 1)) = FileRoom
  BY <1>4, FS_Interval
<1>9. Cardinality(Fitting) <= Cardinality(0..(FileRoom - 1))
  <2> HIDE DEF rank
  <2> QED BY <1>7, <1>8, FS_Injection
<1> QED BY <1>8, <1>9

----------------------------------------------------------------------------
(* Every block, on disk, in a writer or in a prompt, keeps the file's bound *)
(* and names each of its groups.                                            *)

GoodBlock(b) ==
    /\ b \in BlockRow /\ Cardinality(b.sections) <= FileRoom
    /\ \A G \in b.groups : G \cap b.index # {}

WriterRow == [pc : {"idle", "projected", "truncated"}, block : BlockRow]
HookRow == [pc : {"idle", "reading", "selecting", "answering", "marking"}, context : Contexts,
            cutoff : Nat, prior : SUBSET Documents, covered : SUBSET SUBSET Keys,
            shown : SUBSET SUBSET Keys, block : BlockRow,
            withheld : SUBSET Documents, chosen : SUBSET Documents]

\* A prompt selects from what was published when it began.
GoodHook(r) == r \in HookRow /\ GoodBlock(r.block) /\ r.cutoff <= Len(published)
GoodWriter(r) == r \in WriterRow /\ GoodBlock(r.block)

BlockInv ==
    /\ StoreOK /\ GoodBlock(file)
    /\ writer = [w \in Writers |-> writer[w]] /\ \A w \in Writers : GoodWriter(writer[w])
    /\ hook = [h \in Hooks |-> hook[h]] /\ \A h \in Hooks : GoodHook(hook[h])
    /\ emitted \subseteq Documents \X Contexts /\ delivered \subseteq Documents \X Contexts

LEMMA NoBlockIsGood == GoodBlock(NoBlock)
<1>1. NoBlock \in BlockRow /\ NoBlock.sections = {} /\ NoBlock.groups = {}
  BY DEF NoBlock, BlockRow
<1> QED BY <1>1, FS_EmptySet, DeliveryAssumption DEF GoodBlock

LEMMA IdlesAreGood ==
    ASSUME StoreOK
    PROVE  GoodWriter(WriterIdle) /\ GoodHook(HookIdle)
<1>1. Len(published) \in Nat /\ NoBlock \in BlockRow
  BY NoBlockIsGood DEF StoreOK, GoodBlock
<1>2. (CHOOSE c \in Contexts : TRUE) \in Contexts
  BY DeliveryAssumption
<1>3. HookIdle \in HookRow /\ HookIdle.block = NoBlock /\ HookIdle.cutoff = 0
  BY <1>1, <1>2 DEF HookIdle, HookRow
<1>4. WriterIdle \in WriterRow /\ WriterIdle.block = NoBlock
  BY <1>1 DEF WriterIdle, WriterRow
<1> QED BY <1>1, <1>3, <1>4, NoBlockIsGood DEF GoodWriter, GoodHook

\* What a writer builds names the first key of every group.
LEMMA BuiltBlockIsGood ==
    ASSUME StoreOK
    PROVE  GoodBlock(BuildRulesBlock)
<1> DEFINE b == BuildRulesBlock
<1>1. b.sections = Fitting /\ b.index = {FirstKey(G) : G \in Merged} /\ b.groups = Merged
  BY DEF BuildRulesBlock
<1>2. \A G \in Merged : G \subseteq Keys /\ FirstKey(G) \in G
  BY GroupsByText, FirstKeyIsOne
<1>3. b \in BlockRow
  <2>1. Fitting \subseteq SUBSET Keys /\ Merged \subseteq SUBSET Keys
        /\ {FirstKey(G) : G \in Merged} \subseteq Keys
    BY <1>2 DEF Fitting
  <2> QED BY <2>1 DEF BuildRulesBlock, BlockRow
<1>4. \A G \in b.groups : G \cap b.index # {}
  BY <1>1, <1>2
<1> QED BY <1>1, <1>3, <1>4, SectionsFit DEF GoodBlock

LEMMA WriterStepGood ==
    ASSUME BlockInv, NEW w \in Writers, WriterStep(w)
    PROVE  BlockInv'
<1>1. GoodWriter(writer[w]) /\ GoodWriter(WriterIdle) /\ StoreOK
      /\ GoodBlock(NoBlock) /\ GoodBlock(writer[w].block)
  BY IdlesAreGood, NoBlockIsGood DEF BlockInv, GoodWriter
<1>2. UNCHANGED <<published, keyed, recurred, hook, emitted, delivered>>
  BY DEF WriterStep, Project, AlreadyCurrent, Truncate, Fill, WriterKilled
<1>3. ASSUME NEW r, GoodWriter(r), writer' = [writer EXCEPT ![w] = r], GoodBlock(file')
      PROVE  BlockInv'
  <2>1. StoreOK'
    BY <1>1, <1>2 DEF StoreOK, Published
  <2>2. \A h \in Hooks : GoodHook(hook[h])'
    BY <1>2 DEF BlockInv, GoodHook
  <2>3. writer' = [v \in Writers |-> writer'[v]] /\ \A v \in Writers : GoodWriter(writer'[v])
    BY <1>3 DEF BlockInv
  <2> QED BY <1>2, <1>3, <2>1, <2>2, <2>3 DEF BlockInv, GoodBlock, GoodWriter
<1>4. CASE Project(w)
  <2> DEFINE r == [pc |-> "projected", block |-> BuildRulesBlock]
  <2>1. GoodWriter(r)
    BY <1>1, BuiltBlockIsGood DEF GoodWriter, WriterRow, GoodBlock
  <2>2. writer' = [writer EXCEPT ![w] = r] /\ file' = file
    BY <1>4 DEF Project
  <2> HIDE DEF r
  <2> QED BY <1>3, <2>1, <2>2 DEF BlockInv
<1>5. CASE AlreadyCurrent(w) \/ WriterKilled(w)
  BY <1>1, <1>3, <1>5 DEF AlreadyCurrent, WriterKilled, BlockInv
<1>6. CASE Truncate(w)
  <2> DEFINE r == [writer[w] EXCEPT !.pc = "truncated"]
  <2>1. GoodWriter(r)
    BY <1>1 DEF GoodWriter, WriterRow
  <2>2. writer' = [writer EXCEPT ![w] = r] /\ file' = NoBlock
    BY <1>6 DEF Truncate
  <2> HIDE DEF r
  <2> QED BY <1>1, <1>3, <2>1, <2>2
<1>7. CASE Fill(w)
  BY <1>1, <1>3, <1>7 DEF Fill
<1> QED BY <1>4, <1>5, <1>6, <1>7 DEF WriterStep

LEMMA HookStepGood ==
    ASSUME BlockInv, NEW h \in Hooks, HookStep(h)
    PROVE  BlockInv'
<1> USE DEF HookKeeps, At
<1> DEFINE s == hook[h]
<1>1. /\ StoreOK /\ GoodHook(s) /\ GoodHook(HookIdle) /\ GoodBlock(file)
      /\ s \in HookRow /\ HookIdle \in HookRow /\ Len(published) \in Nat
      /\ emitted \subseteq Documents \X Contexts /\ delivered \subseteq Documents \X Contexts
  BY IdlesAreGood DEF BlockInv, GoodHook, StoreOK
<1>2. ASSUME NEW r, GoodHook(r), hook' = [hook EXCEPT ![h] = r], HookKeeps,
             emitted' \subseteq Documents \X Contexts, delivered' \subseteq Documents \X Contexts
      PROVE  BlockInv'
  <2>1. StoreOK'
    BY <1>1, <1>2 DEF StoreOK, Published
  <2>2. hook' = [g \in Hooks |-> hook'[g]] /\ \A g \in Hooks : GoodHook(hook'[g])
    BY <1>2 DEF BlockInv
  <2>3. \A g \in Hooks : GoodHook(hook[g])'
    BY <1>2, <2>2 DEF GoodHook
  <2> QED BY <1>2, <2>1, <2>2, <2>3 DEF BlockInv, GoodBlock, GoodWriter
<1>3. ASSUME NEW c \in Contexts, Begin(h, c) PROVE BlockInv'
  <2> DEFINE r == [HookIdle EXCEPT !.pc = "reading", !.context = c, !.cutoff = Len(published),
                                   !.prior = {d \in Documents : <<d, c>> \in emitted}]
  <2>1. r \in HookRow /\ r.block = HookIdle.block /\ r.cutoff = Len(published)
    BY <1>1 DEF HookRow
  <2>2. GoodHook(r)
    BY <1>1, <2>1 DEF GoodHook
  <2>3. hook' = [hook EXCEPT ![h] = r]
    BY <1>3 DEF Begin
  <2> HIDE DEF r
  <2> QED BY <1>1, <1>2, <1>3, <2>2, <2>3 DEF Begin
<1>4. CASE ReadProjectRulesBlock(h)
  <2> PICK touched \in SUBSET file.sections : \E shown \in Composed(touched, file) :
          hook' = [hook EXCEPT ![h].pc = "selecting", ![h].block = file,
                               ![h].covered = Covered(touched, shown), ![h].shown = shown]
    BY <1>4 DEF ReadProjectRulesBlock
  <2> PICK shown \in Composed(touched, file) :
          hook' = [hook EXCEPT ![h].pc = "selecting", ![h].block = file,
                               ![h].covered = Covered(touched, shown), ![h].shown = shown]
    OBVIOUS
  <2> DEFINE r == [s EXCEPT !.pc = "selecting", !.block = file, !.covered = touched, !.shown = shown]
  <2>1. touched \subseteq SUBSET Keys /\ shown \subseteq SUBSET Keys /\ file \in BlockRow
    BY <1>1 DEF Composed, GoodBlock, BlockRow
  <2>2. r \in HookRow /\ r.block = file /\ r.cutoff = s.cutoff
    BY <1>1, <2>1 DEF HookRow
  <2>3. GoodHook(r)
    BY <1>1, <2>2 DEF GoodHook
  <2>4. hook' = [hook EXCEPT ![h] = r]
    BY DEF Covered
  <2> HIDE DEF r
  <2> QED BY <1>1, <1>2, <1>4, <2>3, <2>4 DEF ReadProjectRulesBlock
<1>5. CASE SelectReflections(h)
  <2> DEFINE visible == {published[i] : i \in 1..s.cutoff}
             uncovered == {d \in visible : ~IsCovered(d, s.covered)}
  <2> PICK applicable \in SUBSET uncovered :
          \E chosen \in SUBSET (Newest(applicable) \ s.prior) :
              hook' = [hook EXCEPT ![h] =
                  [pc |-> "answering", context |-> s.context, cutoff |-> 0, prior |-> {},
                   covered |-> {}, shown |-> s.shown, block |-> NoBlock,
                   withheld |-> Newest(applicable) \cap s.prior, chosen |-> chosen]]
    BY <1>5, Zenon DEF SelectReflections
  <2> PICK chosen \in SUBSET (Newest(applicable) \ s.prior) :
          hook' = [hook EXCEPT ![h] =
              [pc |-> "answering", context |-> s.context, cutoff |-> 0, prior |-> {},
               covered |-> {}, shown |-> s.shown, block |-> NoBlock,
               withheld |-> Newest(applicable) \cap s.prior, chosen |-> chosen]]
    OBVIOUS
  <2> DEFINE r == [pc |-> "answering", context |-> s.context, cutoff |-> 0, prior |-> {},
                   covered |-> {}, shown |-> s.shown, block |-> NoBlock,
                   withheld |-> Newest(applicable) \cap s.prior, chosen |-> chosen]
  <2>1. Newest(applicable) \subseteq Documents
    <3>1. \A i \in 1..s.cutoff : published[i] \in Documents
      BY <1>1 DEF GoodHook, HookRow, StoreOK
    <3> QED BY <3>1 DEF Newest
  <2>2. r \in HookRow /\ r.block = NoBlock /\ r.cutoff = 0
    BY <1>1, <2>1, NoBlockIsGood DEF HookRow, GoodBlock
  <2>3. GoodHook(r)
    BY <1>1, <2>2, NoBlockIsGood DEF GoodHook
  <2>4. hook' = [hook EXCEPT ![h] = r]
    OBVIOUS
  <2> HIDE DEF r
  <2> QED BY <1>1, <1>2, <1>5, <2>3, <2>4 DEF SelectReflections
<1>6. CASE Respond(h)
  <2> DEFINE r == [HookIdle EXCEPT !.pc = "marking", !.context = s.context, !.chosen = s.chosen]
  <2>1. s.context \in Contexts /\ s.chosen \subseteq Documents
    BY <1>1 DEF HookRow
  <2>2. r \in HookRow /\ r.block = HookIdle.block /\ r.cutoff = HookIdle.cutoff
    BY <1>1, <2>1 DEF HookRow
  <2>3. GoodHook(r)
    BY <1>1, <2>2 DEF GoodHook
  <2>4. hook' = [hook EXCEPT ![h] = r] /\ emitted' = emitted /\ HookKeeps
        /\ delivered' = delivered \cup (s.chosen \X {s.context})
    BY <1>6 DEF Respond
  <2>5. delivered' \subseteq Documents \X Contexts
    BY <1>1, <2>1, <2>4
  <2> HIDE DEF r
  <2> QED BY <1>1, <1>2, <2>3, <2>4, <2>5
<1>7. ASSUME NEW d \in Documents, MarkEmitted(h, d) PROVE BlockInv'
  <2> DEFINE r == [s EXCEPT !.chosen = @ \ {d}]
  <2>1. r \in HookRow /\ r.block = s.block /\ r.cutoff = s.cutoff
    BY <1>1 DEF HookRow
  <2>2. GoodHook(r)
    BY <1>1, <2>1 DEF GoodHook
  <2>3. hook' = [hook EXCEPT ![h] = r] /\ delivered' = delivered /\ HookKeeps
        /\ emitted' = emitted \cup {<<d, s.context>>}
    BY <1>7 DEF MarkEmitted
  <2>4. emitted' \subseteq Documents \X Contexts
    BY <1>1, <2>3 DEF HookRow
  <2> HIDE DEF r
  <2> QED BY <1>1, <1>2, <2>2, <2>3, <2>4
<1>8. CASE Leave(h)
  BY <1>1, <1>2, <1>8 DEF Leave
<1> QED BY <1>3, <1>4, <1>5, <1>6, <1>7, <1>8 DEF HookStep

LEMMA PublishedGrows ==
    ASSUME BlockInv, NEW d \in Documents, Publish(d)
    PROVE  BlockInv'
<1>1. /\ StoreOK /\ Len(published) \in Nat /\ published' = Append(published, d)
      /\ published' \in Seq(Documents) /\ Len(published') = Len(published) + 1
      /\ \A i \in 1..Len(published) : published'[i] = published[i]
      /\ published'[Len(published) + 1] = d
      /\ DOMAIN published = 1..Len(published) /\ DOMAIN published' = 1..(Len(published) + 1)
  BY DEF BlockInv, StoreOK, Publish
<1>2. Published' = Published \cup {d}
  BY <1>1 DEF Published
<1>3. \A i, j \in DOMAIN published' : published'[i] = published'[j] => i = j
  <2>1. \A i \in 1..Len(published) : published[i] # d
    BY <1>1 DEF Publish, Published
  <2> QED BY <1>1, <2>1 DEF StoreOK
<1>4. keyed' \subseteq Published'
  BY <1>1, <1>2 DEF Publish, StoreOK
<1>5. recurred' \in [Keys -> 0..MaxRecur]
  <2>1. Key(d) \in Keys /\ MaxRecur \in Nat /\ recurred \in [Keys -> 0..MaxRecur]
    BY <1>1, DeliveryAssumption DEF Key, StoreOK
  <2>2. \A k \in Keys : Counted(k) \in [Keys -> 0..MaxRecur]
    BY <2>1 DEF Counted
  <2>3. Counted(Key(d)) \in [Keys -> 0..MaxRecur]
    BY <2>1, <2>2
  <2> QED BY <1>1, <2>1, <2>3 DEF Publish
<1>6. \A h \in Hooks : GoodHook(hook[h])'
  BY <1>1 DEF BlockInv, Publish, GoodHook, HookRow
<1> QED BY <1>1, <1>3, <1>4, <1>5, <1>6 DEF BlockInv, StoreOK, Publish, GoodBlock, GoodWriter

LEMMA BlockInvKept == BlockInv /\ [DeliveryNext]_vars => BlockInv'
<1> SUFFICES ASSUME BlockInv, [DeliveryNext]_vars PROVE BlockInv'
  OBVIOUS
<1>1. CASE \E k \in Keys : Recur(k)
  <2> PICK k \in Keys : Recur(k)
    BY <1>1
  <2>1. recurred' \in [Keys -> 0..MaxRecur]
    BY DeliveryAssumption DEF Recur, Counted, BlockInv, StoreOK
  <2> QED BY <2>1 DEF Recur, BlockInv, StoreOK, Published, GoodBlock, GoodWriter, GoodHook
<1>2. CASE UNCHANGED vars
  BY <1>2 DEF vars, BlockInv, StoreOK, Published, GoodBlock, GoodWriter, GoodHook
<1> QED BY <1>1, <1>2, PublishedGrows, WriterStepGood, HookStepGood DEF DeliveryNext

LEMMA BlockInvariant == DeliverySpec => []BlockInv
<1>1. DeliveryInit => BlockInv
  <2> SUFFICES ASSUME DeliveryInit PROVE BlockInv
    OBVIOUS
  <2>1. StoreOK
    BY DeliveryAssumption DEF DeliveryInit, StoreOK, Published
  <2> QED BY <2>1, NoBlockIsGood, IdlesAreGood DEF DeliveryInit, BlockInv
<1> QED BY <1>1, BlockInvKept, PTL DEF DeliverySpec

\* The rules file never has more sections than it has room for, whichever writer was last
\* and where it was killed, and the state of every process keeps its shape (DeliveryTypeOK).
THEOREM DeliveryTypeCorrect == DeliverySpec => []DeliveryTypeOK
<1>1. BlockInv => DeliveryTypeOK
  <2> SUFFICES ASSUME BlockInv PROVE DeliveryTypeOK
    OBVIOUS
  <2>1. writer \in [Writers -> WriterRow] /\ hook \in [Hooks -> HookRow]
    BY DEF BlockInv, GoodWriter, GoodHook
  <2> QED BY <2>1 DEF BlockInv, StoreOK, GoodBlock, WriterRow, HookRow, DeliveryTypeOK
<1> QED BY <1>1, BlockInvariant, PTL

\* Whatever the file or a prompt had no room for, every group of families a block was
\* projected from is named by the guidance of the prompt that reads it (EveryLessonNamed).
THEOREM LessonsAreNamed == DeliverySpec => []EveryLessonNamed
<1>1. BlockInv => EveryLessonNamed
  BY DEF BlockInv, GoodHook, GoodBlock, EveryLessonNamed
<1> QED BY <1>1, BlockInvariant, PTL
=============================================================================
