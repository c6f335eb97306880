---------------------------- MODULE SocialRecall ----------------------------
(***************************************************************************)
(* What an agent is told about another dog: MemoryStore.recall takes the   *)
(* newest facts and thoughts about it in one read transaction, and the     *)
(* dogos_adapter of packages/native_agent fits them into one answer of     *)
(* bounded size, facts first, cutting the text of the one memory at which  *)
(* the room runs out.  Sizes count characters of the JSON answer.          *)
(***************************************************************************)
EXTENDS DogMemory, SequencesExt

CONSTANTS Length,     \* characters of a memory's content, by its text
          MaxOutput,  \* MAX_RECALL_OUTPUT_CHARS
          MaxShown,   \* _MAX_OUTPUT_EVIDENCE_IDS
          Frame,      \* characters of an empty answer without its "truncated"
          ItemFrame,  \* the same of an item without its texts and Booleans
          IdSize,     \* characters of one evidence id
          Suffix,     \* characters of _TRUNCATION_SUFFIX
          Limits,     \* limits an agent may ask with
          Threshold   \* profile.familiar_threshold

ASSUME SizesAssumption ==
  /\ Length \in [Texts -> Nat]
  /\ {MaxOutput, MaxShown, Frame, ItemFrame, IdSize, Suffix} \subseteq Nat
  /\ Frame + 5 <= MaxOutput
ASSUME RequestsAssumption == Limits \subseteq 1..20 /\ Threshold \in 0..100 /\ Ids \subseteq Nat

Lesser(a, b) == IF a < b THEN a ELSE b

\* ORDER BY occurred_at_ms DESC, memory_id DESC.
Newer(m, n) == m.at > n.at \/ (m.at = n.at /\ m.id > n.id)

\* ... LIMIT: the k-th of those found has k - 1 newer ones.
Rank(m, found) == Cardinality({n \in found : Newer(n, m)}) + 1
Latest(found, limit) ==
  [k \in 1..Lesser(limit, Cardinality(found)) |-> CHOOSE m \in found : Rank(m, found) = k]

\* The newest of the memories about a peer.
About(kinds, results, peer) ==
  {db.rows[i] : i \in {j \in Stored : /\ db.rows[j].peer = peer
                                      /\ db.rows[j].kind \in kinds
                                      /\ db.rows[j].result \in results}}
Newest(kinds, results, peer, limit) == Latest(About(kinds, results, peer), limit)

\* The queries FACTS and THOUGHTS.
RecalledFacts(peer, limit) == Newest(Facts, {"completed"}, peer, limit)
RecalledThoughts(peer, limit) == Newest({"thought"}, Results, peer, limit)

-----------------------------------------------------------------------------
\* _memory_item: kept counts the characters that are left of the content.
Item(m) ==
  [memory |-> m, kept |-> Length[m.text], cut |-> FALSE,
   evidence |-> Lesser(MaxShown, Cardinality(m.evidence)),
   evidenceCut |-> Cardinality(m.evidence) > MaxShown]

Flag(b) == IF b THEN 4 ELSE 5  \* true, false

ItemSize(item) ==
  ItemFrame + item.kept + (IF item.cut THEN Suffix ELSE 0) + item.evidence * IdSize
    + Flag(item.cut) + Flag(item.evidenceCut)

Chars(items) == SumFunction([i \in DOMAIN items |-> ItemSize(items[i])])

\* _json_chars of the answer.
Size(answer) == Frame + Flag(answer.truncated) + Chars(answer.facts) + Chars(answer.thoughts)

With(answer, category, item) == [answer EXCEPT ![category] = Append(@, item)]
Fits(answer, category, item) == Size(With(answer, category, item)) <= MaxOutput

\* The binary search for the longest prefix that fits, when an empty one does.
Longest(answer, category, item) ==
  LET length == item.kept
      search[range \in (0..length) \X (0..length)] ==
        LET low == range[1]  high == range[2]  midpoint == (low + high + 1) \div 2
        IN IF low >= high THEN low
           ELSE IF Fits(answer, category, [item EXCEPT !.kept = midpoint])
           THEN search[<<midpoint, high>>] ELSE search[<<low, midpoint - 1>>]
  IN search[<<0, length>>]

\* Mutant: an item left out altogether leaves no mark.
AppendSilently(answer, category, item) ==
  LET late == [answer EXCEPT !.truncated = TRUE]
      cut == [item EXCEPT !.cut = TRUE]
  IN IF Fits(answer, category, item) THEN With(answer, category, item)
     ELSE IF ~Fits(late, category, [cut EXCEPT !.kept = 0]) THEN answer
     ELSE With(late, category, [cut EXCEPT !.kept = Longest(late, category, cut)])

\* _append_with_budget: whole, or cut, or cut and without its evidence, or
\* not at all; in all but the first case the answer is marked as truncated.
AppendWithBudget(answer, category, item) ==
  LET late == [answer EXCEPT !.truncated = TRUE]
      cut == [item EXCEPT !.cut = TRUE]
      bare == [cut EXCEPT !.evidence = 0, !.evidenceCut = item.evidence > 0]
      Empty(candidate) == [candidate EXCEPT !.kept = 0]
      candidate == IF Fits(late, category, Empty(cut)) THEN cut ELSE bare
  IN IF Fits(answer, category, item) THEN With(answer, category, item)
     ELSE IF ~Fits(late, category, Empty(candidate)) THEN late
     ELSE With(late, category, [candidate EXCEPT !.kept = Longest(late, category, candidate)])

\* One list of the answer, up to the memory at which the room runs out.
AppendNext(answer, category, m) ==
  IF answer.truncated THEN answer ELSE AppendWithBudget(answer, category, Item(m))
AppendAll(answer, category, memories) ==
  LET after[n \in 0..Len(memories)] ==
        IF n = 0 THEN answer ELSE AppendNext(after[n - 1], category, memories[n])
  IN after[Len(memories)]

\* _recall_social_memory, of a dog that has a database, about another one.
Recall(peer, limit) ==
  LET empty == [affinity |-> db.score[peer], familiar |-> db.score[peer] >= Threshold,
                facts |-> << >>, thoughts |-> << >>, truncated |-> FALSE]
      facts == AppendAll(empty, "facts", RecalledFacts(peer, limit))
  IN AppendAll(facts, "thoughts", RecalledThoughts(peer, limit))

Requests == IF db = None THEN {} ELSE (Dogs \ {db.owner}) \X Limits

-----------------------------------------------------------------------------
Listed(answer) == answer.facts \o answer.thoughts
Whole(items) == {i \in DOMAIN items : ~items[i].cut}
WholeOnes(items) == SubSeq(items, 1, Cardinality(Whole(items)))

WholePart(answer) == [answer EXCEPT !.facts = WholeOnes(@), !.thoughts = WholeOnes(@)]

Exact(answer, facts, thoughts) ==
  LET recalled == facts \o thoughts
      listed == Listed(answer)
      whole == Cardinality(Whole(listed))
  IN /\ Size(answer) <= MaxOutput
     /\ Len(listed) <= whole + 1
     /\ \A i \in DOMAIN listed : listed[i].memory = recalled[i]
     /\ \A i \in 1..whole : listed[i] = Item(recalled[i])
     /\ answer.truncated <=> whole < Len(recalled)
     /\ answer.truncated =>
          LET before == WholePart(answer)
              category == IF whole < Len(facts) THEN "facts" ELSE "thoughts"
          IN /\ ~Fits([before EXCEPT !.truncated = FALSE], category, Item(recalled[whole + 1]))
             /\ Len(listed) > whole /\ Last(listed).kept < Length[Last(listed).memory.text] =>
                  ~Fits(before, category, [Last(listed) EXCEPT !.kept = @ + 1])

\* Within its bound, an answer tells as much as it can, in the order of what
\* was recalled: it never exceeds the bound, lists every memory whole until
\* the first that does not fit, at most that one cut, as late as possible, and
\* says whether anything is missing.
AnswerIsExact ==
  \A request \in Requests :
    Exact(Recall(request[1], request[2]),
          RecalledFacts(request[1], request[2]), RecalledThoughts(request[1], request[2]))

\* The relationship an agent reads is the one its facts account for: who is
\* liked was met, and when nothing was left out the listed facts add up to
\* the affinity.
AffinityIsExplained ==
  \A request \in Requests :
    LET answer == Recall(request[1], request[2])
    IN ~answer.truncated =>
         /\ answer.affinity > 0 => answer.facts # << >>
         /\ Len(answer.facts) < request[2] =>
              answer.affinity =
                Capped(SumFunction([i \in DOMAIN answer.facts |-> answer.facts[i].memory.delta]))
=============================================================================
