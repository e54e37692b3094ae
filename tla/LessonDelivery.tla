--------------------------- MODULE LessonDelivery ---------------------------
(***************************************************************************)
(* How a published lesson reaches a prompt.  There are two channels: the   *)
(* rules block, which a reviewer projects from the store into the          *)
(* project's rules file (update-rules-tier.mjs, rules-writer.mjs) and the  *)
(* prompt hook reads back (lesson-layers.mjs), and the documents the hook  *)
(* selects itself (selector.mjs) and records as emitted once its response  *)
(* is out (handlePromptHook, cli.mjs).                                     *)
(*                                                                         *)
(* Hooks and writers are processes that may be killed between any two      *)
(* steps.  What a lexical score or a byte count decides is a choice here;  *)
(* a context is a session, its epoch and its task.                         *)
(***************************************************************************)
EXTENDS Integers, Sequences, FiniteSets, FiniteSetsExt

CONSTANTS
    Documents, Families, Keys, Contexts, Hooks, Writers,
    FamilyOf,      \* FamilyOf[d]: the family d names, by which the selector tells lessons apart
    KeyOf,         \* KeyOf[f]: the key f is derived from, by which the store counts; keys are ordered
    Severity,      \* Severity[d]: 0 Blocker, 1 Critical, 2 Major
    Lesson,        \* Lesson[d]: the text the block would print of d
    ExpandLimit,   \* sections one prompt may expand
    FileRoom,      \* sections the rules file has room for
    SectionCost, PromptBudget,   \* cost of a section, and room, in index lines
    MaxRecur       \* bound on the recurrences counted

ASSUME DeliveryAssumption ==
    /\ IsFiniteSet(Keys) /\ Keys \subseteq Nat
    /\ FamilyOf \in [Documents -> Families] /\ KeyOf \in [Families -> Keys]
    /\ Severity \in [Documents -> 0..2]
    /\ Contexts # {}
    /\ {ExpandLimit, FileRoom, SectionCost, PromptBudget, MaxRecur} \subseteq Nat

VARIABLES
    published,  \* the documents in the order they were published
    keyed,      \* those whose reviewer_jobs row has a family key
    recurred,   \* recurred[k]: complaints filed under k
    file,       \* the rules block on disk
    writer,     \* maybeUpdateRulesTier in a reviewer or the CLI
    hook,       \* handlePromptHook for a prompt
    emitted,    \* reflection_emissions with outcome 'emitted', as <<document, context>>
    delivered   \* history: the documents in responses the host received

vars == <<published, keyed, recurred, file, writer, hook, emitted, delivered>>

Threshold == [s \in 0..2 |-> s + 1]
Before(d, e) == \E i, j \in DOMAIN published : i < j /\ published[i] = d /\ published[j] = e
Published == {published[i] : i \in DOMAIN published}
Key(d) == KeyOf[FamilyOf[d]]

(*--------------------------- The rules block ----------------------------*)

\* Of the keys that recurred often enough, the newest document the store finds by its key.
LatestPublished == {d \in keyed : \A e \in keyed : Key(e) = Key(d) => ~Before(d, e)}
Qualified == {d \in LatestPublished : recurred[Key(d)] >= Threshold[Severity[d]]}

\* mergeFamilies: families whose newest lessons read alike share a section.
Merged == {{Key(e) : e \in {x \in Qualified : Lesson[x] = Lesson[d]}} : d \in Qualified}

\* The complaints filed under the keys of a group, counted.
Occurrences(G) == Cardinality({complaint \in G \X (1..MaxRecur) : complaint[2] <= recurred[complaint[1]]})
Worst(G) == Min({Severity[d] : d \in {x \in Qualified : Key(x) \in G}})
Recent(G, H) == \E d, e \in Qualified : Key(d) \in G /\ Key(e) \in H
                  /\ \A x \in Qualified : Key(x) \in G \cup H => x = d \/ Before(x, d)

\* The store lists families by recurrence, then by key; the first names the group.
FirstKey(G) == CHOOSE k \in G : \A l \in G :
    k = l \/ recurred[k] > recurred[l] \/ (recurred[k] = recurred[l] /\ k < l)

\* rankFamilies: severity, then recurrence, then recency (no two are published at once).
Outranks(G, H) == G # H /\
    \/ Worst(G) < Worst(H)
    \/ Worst(G) = Worst(H) /\ Occurrences(G) > Occurrences(H)
    \/ Worst(G) = Worst(H) /\ Occurrences(G) = Occurrences(H) /\ Recent(G, H)

\* The sections that fit, the highest rank first; mutant: one too many.
Fitting_OffByOne == {G \in Merged : Cardinality({H \in Merged : Outranks(H, G)}) <= FileRoom}
Fitting == {G \in Merged : Cardinality({H \in Merged : Outranks(H, G)}) < FileRoom}

\* buildRulesBlock: full sections while they fit, and one index line for every group.
\* "groups" is not printed: it remembers what the block was built from.
\* Mutant: the index names the sections printed.
BuildRulesBlock_SectionsOnly ==
    [sections |-> Fitting, index |-> {FirstKey(G) : G \in Fitting}, groups |-> Merged]
BuildRulesBlock ==
    [sections |-> Fitting, index |-> {FirstKey(G) : G \in Merged}, groups |-> Merged]
NoBlock == [sections |-> {}, index |-> {}, groups |-> {}]

WriterIdle == [pc |-> "idle", block |-> NoBlock]

\* maybeUpdateRulesTier up to the block; with nothing qualified the file stays as it is.
Project(w) ==
    /\ writer[w].pc = "idle" /\ Qualified # {}
    /\ writer' = [writer EXCEPT ![w] = [pc |-> "projected", block |-> BuildRulesBlock]]
    /\ UNCHANGED <<published, keyed, recurred, file, hook, emitted, delivered>>

\* rulesBlockIsCurrent: nothing to write.
AlreadyCurrent(w) ==
    /\ writer[w].pc = "projected" /\ file = writer[w].block
    /\ writer' = [writer EXCEPT ![w] = WriterIdle]
    /\ UNCHANGED <<published, keyed, recurred, file, hook, emitted, delivered>>

\* writeFile empties the file before it writes: a reader then finds no block.
Truncate(w) ==
    /\ writer[w].pc = "projected" /\ file # writer[w].block
    /\ file' = NoBlock
    /\ writer' = [writer EXCEPT ![w].pc = "truncated"]
    /\ UNCHANGED <<published, keyed, recurred, hook, emitted, delivered>>

\* Of two writers the later one's block is the one between the first pair of markers.
Fill(w) ==
    /\ writer[w].pc = "truncated"
    /\ file' = writer[w].block
    /\ writer' = [writer EXCEPT ![w] = WriterIdle]
    /\ UNCHANGED <<published, keyed, recurred, hook, emitted, delivered>>

WriterKilled(w) ==
    /\ writer[w].pc # "idle"
    /\ writer' = [writer EXCEPT ![w] = WriterIdle]
    /\ UNCHANGED <<published, keyed, recurred, file, hook, emitted, delivered>>

(*----------------------------- The prompt hook ---------------------------*)

HookIdle == [pc |-> "idle", context |-> CHOOSE c \in Contexts : TRUE, cutoff |-> 0, prior |-> {},
             covered |-> {}, shown |-> {}, block |-> NoBlock, withheld |-> {}, chosen |-> {}]
At(h, pc) == hook[h].pc = pc
HookKeeps == UNCHANGED <<published, keyed, recurred, file, writer>>

\* selectionPublishedBefore, and listPriorReflectionEmissions.
Begin(h, c) ==
    /\ At(h, "idle")
    /\ hook' = [hook EXCEPT ![h] = [HookIdle EXCEPT
          !.pc = "reading", !.context = c, !.cutoff = Len(published),
          !.prior = {d \in Documents : <<d, c>> \in emitted}]]
    /\ UNCHANGED <<emitted, delivered>> /\ HookKeeps

\* composeInjection: the index is never given up, sections are dropped from the end.
Fits(S, block) == SectionCost * Cardinality(S) + Cardinality(block.index) <= PromptBudget
Composed(touched, block) ==
    {S \in SUBSET touched :
        /\ Fits(S, block) \/ S = {}
        /\ \A T \in SUBSET touched : Fits(T, block) => Cardinality(T) <= Cardinality(S)}

\* readProjectRulesBlock: the sections the prompt touches (none unless it reads as a
\* problem), what of them the budget lets through, and the families taken as covered.
Covered(touched, shown) == touched
ReadProjectRulesBlock(h) ==
    /\ At(h, "reading")
    /\ \E touched \in SUBSET file.sections :
         /\ Cardinality(touched) <= ExpandLimit
         /\ \E shown \in Composed(touched, file) :
              hook' = [hook EXCEPT ![h].pc = "selecting", ![h].block = file,
                                   ![h].covered = Covered(touched, shown), ![h].shown = shown]
    /\ UNCHANGED <<emitted, delivered>> /\ HookKeeps

\* A section's heading is compared whole: only a family alone in its section matches.
IsCovered(d, covered) == {Key(d)} \in covered
Newest(D) == {d \in D : \A e \in D : FamilyOf[e] = FamilyOf[d] => ~Before(d, e)}

\* selectReflections: covered families go first, then what does not apply, then all but
\* a family's newest, then what this context has had; the token budgets take any of the rest.
SelectReflections(h) ==
    LET visible == {published[i] : i \in 1..hook[h].cutoff}
        uncovered == {d \in visible : ~IsCovered(d, hook[h].covered)}
    IN
    /\ At(h, "selecting")
    /\ \E applicable \in SUBSET uncovered :
         LET projected == Newest(applicable)
         IN \E chosen \in SUBSET (projected \ hook[h].prior) :
              hook' = [hook EXCEPT ![h] =
                  [pc |-> "answering", context |-> hook[h].context, cutoff |-> 0, prior |-> {},
                   covered |-> {}, shown |-> hook[h].shown, block |-> NoBlock,
                   withheld |-> projected \cap hook[h].prior, chosen |-> chosen]]
    /\ UNCHANGED <<emitted, delivered>> /\ HookKeeps

\* writePromptResponse reached the host.
Respond(h) ==
    /\ At(h, "answering")
    /\ delivered' = delivered \cup (hook[h].chosen \X {hook[h].context})
    /\ hook' = [hook EXCEPT ![h] = [HookIdle EXCEPT
          !.pc = "marking", !.context = hook[h].context, !.chosen = hook[h].chosen]]
    /\ UNCHANGED emitted /\ HookKeeps

\* markReflectionEmitted, one row after the other, and only once the response is out;
\* mutant: as soon as the documents are selected.
Markable_Selected(h) == IF At(h, "answering") \/ At(h, "marking") THEN hook[h].chosen ELSE {}
Markable(h) == IF At(h, "marking") THEN hook[h].chosen ELSE {}
MarkEmitted(h, d) ==
    /\ d \in Markable(h)
    /\ emitted' = emitted \cup {<<d, hook[h].context>>}
    /\ hook' = [hook EXCEPT ![h].chosen = @ \ {d}]
    /\ UNCHANGED delivered /\ HookKeeps

\* The hook is done, its response failed, or the host killed it.
Leave(h) ==
    /\ ~At(h, "idle")
    /\ hook' = [hook EXCEPT ![h] = HookIdle]
    /\ UNCHANGED <<emitted, delivered>> /\ HookKeeps

(*------------------------------ The reviews ------------------------------*)

Counted(k) == [recurred EXCEPT ![k] = IF @ < MaxRecur THEN @ + 1 ELSE @]

\* completeReviewPublished: a lesson that founds its family is filed under its key, one
\* that names a family of the catalog under none.
Publish(d) ==
    /\ d \notin Published
    /\ published' = Append(published, d)
    /\ \/ keyed' = keyed \cup {d} /\ recurred' = Counted(Key(d))
       \/ /\ \E e \in Published : FamilyOf[e] = FamilyOf[d]
          /\ UNCHANGED <<keyed, recurred>>
    /\ UNCHANGED <<file, writer, hook, emitted, delivered>>

\* A complaint filed under a key that publishes nothing counts as well.
Recur(k) ==
    /\ recurred[k] < MaxRecur
    /\ recurred' = Counted(k)
    /\ UNCHANGED <<published, keyed, file, writer, hook, emitted, delivered>>

DeliveryInit ==
    /\ published = <<>> /\ keyed = {} /\ recurred = [k \in Keys |-> 0]
    /\ file = NoBlock
    /\ writer = [w \in Writers |-> WriterIdle]
    /\ hook = [h \in Hooks |-> HookIdle]
    /\ emitted = {} /\ delivered = {}

WriterStep(w) == Project(w) \/ AlreadyCurrent(w) \/ Truncate(w) \/ Fill(w) \/ WriterKilled(w)
HookStep(h) ==
    \/ \E c \in Contexts : Begin(h, c)
    \/ ReadProjectRulesBlock(h) \/ SelectReflections(h) \/ Respond(h) \/ Leave(h)
    \/ \E d \in Documents : MarkEmitted(h, d)

DeliveryNext ==
    \/ \E d \in Documents : Publish(d)
    \/ \E k \in Keys : Recur(k)
    \/ \E w \in Writers : WriterStep(w)
    \/ \E h \in Hooks : HookStep(h)

DeliverySpec == DeliveryInit /\ [][DeliveryNext]_vars

(*------------------------------- Properties ------------------------------*)

BlockRow == [sections : SUBSET SUBSET Keys, index : SUBSET Keys, groups : SUBSET SUBSET Keys]
\* The state keeps its shape, and the file its bounds.
DeliveryTypeOK ==
    /\ published \in Seq(Documents) /\ keyed \subseteq Published /\ recurred \in [Keys -> 0..MaxRecur]
    /\ file \in BlockRow /\ Cardinality(file.sections) <= FileRoom
    /\ writer \in [Writers -> [pc : {"idle", "projected", "truncated"}, block : BlockRow]]
    /\ hook \in [Hooks -> [pc : {"idle", "reading", "selecting", "answering", "marking"}, context : Contexts,
          cutoff : Nat, prior : SUBSET Documents, covered : SUBSET SUBSET Keys,
          shown : SUBSET SUBSET Keys, block : BlockRow,
          withheld : SUBSET Documents, chosen : SUBSET Documents]]
    /\ emitted \subseteq Documents \X Contexts /\ delivered \subseteq Documents \X Contexts

\* A document withheld from a prompt because its context has had it was in a response the
\* host received in that context: a hook that dies between selecting and answering, or whose
\* response fails, must not take the lesson away from the prompts after it.
WithheldWasDelivered ==
    \A h \in Hooks : \A d \in hook[h].withheld : <<d, hook[h].context>> \in delivered

\* Every group of families the block was projected from is named by the guidance of each
\* prompt that reads it, by its first key in the index or by its heading, however many
\* sections the file or the prompt had no room for.
EveryLessonNamed ==
    \A h \in Hooks : \A G \in hook[h].block.groups :
        G \cap (hook[h].block.index \cup UNION hook[h].shown) # {}
=============================================================================
