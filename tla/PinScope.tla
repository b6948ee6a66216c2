------------------------------- MODULE PinScope -------------------------------
(***************************************************************************)
(* workflow_pin_pr_consumer.py and the probe it loads from protected main: *)
(* a pull request of the dependency bot that does nothing but move action  *)
(* pins to the versions the repository reviewed need not run the research  *)
(* measurements.  The answer is put together from several reads of the two *)
(* branches and of GitHub's record of the pull request, any of which may   *)
(* move in between; commits do not change, so what is read of them is.     *)
(***************************************************************************)
EXTENDS Integers, Sequences

CONSTANTS Sites,               \* the step-level uses keys of the workflow files
          MaxMain, MaxPushes   \* bounds: commits of main, pushes of the bot

VARIABLES mains,      \* the trees of main's commits, the last one its tip
          heads,      \* what the bot pushed: the commit of main it stands on, and a tree
          head,       \* the tip of the bot's branch
          meta,       \* GitHub's record of the pull request, which may lag
          pc,         \* where the run of the consumer stands
          event,      \* the event it runs for
          seen,       \* the two tips the probe read first
          record,     \* the record of the pull request the probe read last
          steady      \* history: nothing has moved since the run began

vars == <<mains, heads, head, meta, pc, event, seen, record, steady>>
repo == <<mains, heads, head, meta>>

(***************************************************************************)
(* Trees                                                                   *)
(***************************************************************************)
\* The two reviews differ in the version they lead to; both start from the same one.
Target == [previous |-> "prev", current |-> "new"]
Pins == {"none", "old", "prev", "new"}
Trees == [pins : [Sites -> Pins], review : DOMAIN Target, rest : 0..MaxMain]

\* expected_repo: every reviewed pin of the tree moved, and nothing else.
Complete(t) == [t EXCEPT !.pins = [s \in Sites |-> IF @[s] = "old" THEN Target[t.review] ELSE @[s]]]

\* A three-way merge, part by part.
Merged(base, ours, theirs) == IF theirs = base THEN ours ELSE theirs
Mergeable(base, ours, theirs) == ours = base \/ theirs = base \/ ours = theirs
MergesCleanly(f, m, h) == /\ Mergeable(f.review, m.review, h.review) /\ Mergeable(f.rest, m.rest, h.rest)
                          /\ \A s \in Sites : Mergeable(f.pins[s], m.pins[s], h.pins[s])
MergeTree(f, m, h) == [pins |-> [s \in Sites |-> Merged(f.pins[s], m.pins[s], h.pins[s])],
                       review |-> Merged(f.review, m.review, h.review), rest |-> Merged(f.rest, m.rest, h.rest)]

Tip == Len(mains)
NoEvent == [base |-> 0, head |-> 0, parent |-> 0, tree |-> mains[1]]

Init == /\ \E p \in [Sites -> {"none", "old"}] : mains = <<[pins |-> p, review |-> "previous", rest |-> 0]>>
        /\ heads = <<[fork |-> 1, tree |-> mains[1]]>> /\ head = 1 /\ meta = [base |-> 1, head |-> 1]
        /\ pc = "idle" /\ event = NoEvent /\ seen = [base |-> 0, head |-> 0] /\ record = seen /\ steady = TRUE

(***************************************************************************)
(* The two branches and GitHub's record                                    *)
(***************************************************************************)
Moves == /\ steady' = FALSE /\ UNCHANGED <<pc, event, seen, record>>
\* Main gains or loses a use of an action, is updated by hand, reviews anew, or changes elsewhere.
CommitMain(t) == /\ Tip < MaxMain /\ mains' = Append(mains, t)
                 /\ UNCHANGED <<heads, head, meta>> /\ Moves
MainMoves == LET t == mains[Tip] IN
    \/ \E s \in Sites : \E p \in {"none", "old", Target[t.review]} \ {t.pins[s]} : CommitMain([t EXCEPT !.pins[s] = p])
    \/ t.review = "previous" /\ CommitMain([t EXCEPT !.review = "current"])
    \/ CommitMain([t EXCEPT !.rest = @ + 1])
\* The bot proposes versions for some of the uses, on whichever commit of main it last fetched,
\* or somebody adds to its branch.
BotPushes == /\ Len(heads) < MaxPushes
             /\ \E fork \in 1..Tip, moved \in SUBSET Sites, p \in {"prev", "new"}, r \in {0, MaxMain} :
                  LET f == mains[fork] IN
                    heads' = Append(heads, [fork |-> fork, tree |->
                        [f EXCEPT !.pins = [s \in Sites |-> IF s \in moved /\ @[s] # "none" THEN p ELSE @[s]],
                                  !.rest = IF r = 0 THEN @ ELSE r]])
             /\ head' = Len(heads') /\ UNCHANGED <<mains, meta>> /\ Moves
BotReturns(h) == h # head /\ head' = h /\ UNCHANGED <<mains, heads, meta>> /\ Moves
GithubCatchesUp == /\ meta # [base |-> Tip, head |-> head] /\ meta' = [base |-> Tip, head |-> head]
                   /\ UNCHANGED <<mains, heads, head>> /\ Moves

(***************************************************************************)
(* The probe, live_probe                                                   *)
(***************************************************************************)
Deny == pc' = "denied"
Tips == [base |-> Tip, head |-> head]

\* The workflow starts on an event, from a checkout of the base the event names; the merge
\* commit GitHub made for it merges into main as it is.
Start == /\ pc = "idle" /\ meta.head = head
         /\ LET h == heads[head]  IN
              /\ MergesCleanly(mains[h.fork], mains[Tip], h.tree)
              /\ event' = [base |-> meta.base, head |-> head, parent |-> Tip,
                           tree |-> MergeTree(mains[h.fork], mains[Tip], h.tree)]
         /\ pc' = "heads" /\ steady' = TRUE /\ UNCHANGED <<repo, seen, record>>
\* The consumer is the file of the base the event names; that checkout is compared with main as
\* it is now.
Checkout == event.base
ReadHeads == /\ pc = "heads" /\ seen' = Tips
             /\ IF Checkout = Tip THEN pc' = "meta" ELSE Deny
             /\ UNCHANGED <<repo, event, record, steady>>
\* snapshot_metadata: the record names these tips, and they differ.
Snapshot(m, tips) == m = tips /\ heads[tips.head].tree # mains[tips.base]
ReadMeta == /\ pc = "meta" /\ IF Snapshot(meta, seen) THEN pc' = "classify" ELSE Deny
            /\ UNCHANGED <<repo, event, seen, record, steady>>

\* The policy the probe runs is main's own, byte for byte: the review it names decides.
Policy(b) == mains[b].review
Authorized(old, new, review) == old = "old" /\ new = Target[review]
\* The two texts differ in authorized lines only.
PinEdits(old, new, review) == \A s \in Sites : old[s] # new[s] => Authorized(old[s], new[s], review)
\* classify_repo: the head stands on the base, and nothing but workflow text differs.
PinOnly(b, h) == LET t == mains[b]  u == heads[h].tree IN
    /\ heads[h].fork = b
    /\ u.review = t.review /\ u.rest = t.rest
    /\ PinEdits(t.pins, u.pins, Policy(b))
\* Mutant of Approved: any pin-only difference will do.
ApprovedInPart(b, h) == PinOnly(b, h)
\* actual_matches_expected: and all of them are there.
Approved(b, h) == PinOnly(b, h) /\ heads[h].tree.pins = Complete(mains[b]).pins
Classify == /\ pc = "classify"
            /\ IF Approved(seen.base, seen.head) THEN pc' = "meta again" ELSE Deny
            /\ UNCHANGED <<repo, event, seen, record, steady>>
ReadMetaAgain == /\ pc = "meta again" /\ pc' = "heads again" /\ record' = meta
                 /\ UNCHANGED <<repo, event, seen, steady>>
Unmoved(m) == Tips = seen /\ Snapshot(m, seen)
ReadHeadsAgain == /\ pc = "heads again" /\ IF Unmoved(record) THEN pc' = "bind" ELSE Deny
                  /\ UNCHANGED <<repo, event, seen, record, steady>>

(***************************************************************************)
(* The consumer, evaluate                                                  *)
(***************************************************************************)
\* bind_m1 and bind_event_merge: what was probed is what the event is about.
Bound == /\ seen = [base |-> event.base, head |-> event.head]
         /\ event.parent = event.base /\ event.tree = heads[event.head].tree
Bind == /\ pc = "bind" /\ IF Bound THEN pc' = "last heads" ELSE Deny
        /\ UNCHANGED <<repo, event, seen, record, steady>>
ReadLastHeads == /\ pc = "last heads" /\ IF Tips = seen THEN pc' = "last meta" ELSE Deny
                 /\ UNCHANGED <<repo, event, seen, record, steady>>
Decide == /\ pc = "last meta" /\ IF Snapshot(meta, seen) THEN pc' = "skipped" ELSE Deny
          /\ UNCHANGED <<repo, event, seen, record, steady>>
\* The next event finds another runner.
NextEvent == /\ pc \in {"skipped", "denied"} /\ pc' = "idle" /\ event' = NoEvent
              /\ seen' = [base |-> 0, head |-> 0] /\ record' = seen'
              /\ UNCHANGED <<repo, steady>>

Next ==
    \/ MainMoves \/ BotPushes \/ (\E h \in 1..Len(heads) : BotReturns(h)) \/ GithubCatchesUp
    \/ Start \/ ReadHeads \/ ReadMeta \/ Classify \/ ReadMetaAgain \/ ReadHeadsAgain
    \/ Bind \/ ReadLastHeads \/ Decide \/ NextEvent

Spec == Init /\ [][Next]_vars

(***************************************************************************)
(* Properties                                                              *)
(***************************************************************************)
\* A measurement is skipped only for a merge that takes main, as it was at the last look, to the
\* complete transition of the review main itself names: not for a part of it, not for the previous
\* review's versions, not with anything else in it (EXACT_DIRECT_PR_APPROVED_PIN_MAINTENANCE).
SkipEarned == pc = "skipped" => /\ event.tree = Complete(mains[seen.base])
                                /\ event.tree # mains[seen.base] /\ event.parent = seen.base
\* And nothing else holds it up: when nothing moved during the run, the record was up to date and
\* the bot's head is the complete transition of main, the answer is yes.
DenialJustified ==
    pc = "denied" /\ steady => ~ /\ event.base = Tip /\ heads[event.head].fork = Tip
                                 /\ heads[event.head].tree = Complete(mains[Tip])
                                 /\ heads[event.head].tree # mains[Tip]
=============================================================================
