-------------------- MODULE PublishCycleProofs --------------------
(***************************************************************************)
(* Proofs about the publish cycle, for any number of posts and votes, any  *)
(* slice size and any faults: no write is lost, and the last edit of the   *)
(* community is the one shown and published.                               *)
(***************************************************************************)
EXTENDS PublishCycle, TLAPS

\* The slice in work holds posts that no other part of the batch holds.
BatchInv ==
    /\ pc \in {"slicing", "signing", "writing", "deciding"} => remaining \cap updated = {}
    /\ pc \in {"signing", "writing"} => slice \cap (remaining \cup updated) = {}
    /\ rows.posts \subseteq posts /\ remaining \subseteq posts /\ slice \subseteq posts
    /\ pc \in {"slicing", "signing", "writing"} \/ (pc = "deciding" /\ updated # {}) => trigger

\* A vote is counted, or newer than its row; the slice being signed counts it
\* or it landed since the batch's stamp.
CountInv ==
    /\ \A v \in cast : Target[v] \in posts
    /\ \A v \in cast : v \in rows.votes \/ v \in newer
    /\ pc = "signing" => \A v \in cast : Target[v] \in slice => v \in calc.votes \/ v \in sinceStamp

\* The post's file says what its row says.
InMfs(p) ==
    /\ p \in files.posts /\ p \in rows.posts
    /\ \A v \in Vote : Target[v] = p => (v \in files.votes <=> v \in rows.votes)

\* Marked rows are in MFS; so is what this cycle is about to mark.
MarkInv ==
    /\ \A p \in marked : InMfs(p)
    /\ pc \in {"slicing", "signing", "writing", "deciding"} => \A p \in updated : InMfs(p)
    /\ pc = "writing" =>
           /\ slice \cap marked = {} /\ slice \subseteq rows.posts
           /\ \A v \in Vote : Target[v] \in slice => (v \in rows.votes <=> v \in calc.votes)

\* Files only grow, and records are copies of them.
ShowInv ==
    /\ files.posts \subseteq posts /\ files.votes \subseteq cast
    /\ pc \in {"signing", "writing"} =>
           /\ calc.votes \subseteq cast
           /\ \A v \in files.votes : Target[v] \in slice => v \in calc.votes
    /\ record.lists.posts \subseteq files.posts /\ record.lists.votes \subseteq files.votes
    /\ pc \in {"publishing", "adopting"} =>
           /\ record.lists.posts \subseteq draft.lists.posts /\ draft.lists.posts \subseteq files.posts
           /\ record.lists.votes \subseteq draft.lists.votes /\ draft.lists.votes \subseteq files.votes

\* A record that will make up for what the published one lacks is on its way.
OnItsWay == trigger \/ pc = "building" \/ ~Up

\* Nothing that is marked as published is missing from the record for good.
OwedInv ==
    /\ \A v \in cast : \/ v \in record.lists.votes
                       \/ v \in newer \/ Target[v] \notin marked
                       \/ OnItsWay
                       \/ pc = "publishing" /\ v \in draft.lists.votes
    /\ \A p \in posts : \/ p \in record.lists.posts
                        \/ p \notin marked
                        \/ OnItsWay
                        \/ pc = "publishing" /\ p \in draft.lists.posts

CycleInv == BoardTypeOK /\ BatchInv /\ CountInv /\ MarkInv /\ ShowInv /\ OwedInv

\* Every step keeps the types of the tables, the files, the records and the locals.
LEMMA BoardTypeStep ==
    ASSUME BoardTypeOK, [Next]_vars
    PROVE  BoardTypeOK'
<1> USE ConstantsAssumption
    DEF BoardTypeOK,
        Content, Phases, Up, VotesOn, Replace, Request, DropLocals,
        dbVars, rowVars, editVars, waitVars, batchVars, draftVars, stopVars
<1>1. ASSUME NEW p \in Post, storeComment(p)
      PROVE  BoardTypeOK'
      BY <1>1 DEF storeComment
<1>2. ASSUME NEW v \in Vote, storeVote(v)
      PROVE  BoardTypeOK'
      BY <1>2 DEF storeVote
<1>3. ASSUME NEW c \in Config, editPropsOnStartedCommunity(c) \/ editPropsOnNotStartedCommunity(c)
      PROVE  BoardTypeOK'
      BY <1>3, ZenonT(60) DEF editPropsOnStartedCommunity, editPropsOnNotStartedCommunity, MarksAfterLayout
<1>4. CASE NextSecond BY <1>4 DEF NextSecond
<1>5. CASE waitUntilNextSync BY <1>5 DEF waitUntilNextSync, calculateLatestUpdateTrigger, NeedsRecord, shouldStopPublishLoop
<1>6. CASE flagComments BY <1>6, ZenonT(60) DEF flagComments, Flagged
<1>7. CASE readSlice BY <1>7 DEF readSlice
<1>8. CASE upsertCommentUpdates BY <1>8 DEF upsertCommentUpdates
<1>9. CASE writePostUpdatesToMfs BY <1>9 DEF writePostUpdatesToMfs
<1>10. CASE writePostUpdatesFails
 <2>1. trigger' \in BOOLEAN BY <1>10 DEF writePostUpdatesFails, CycleFails, NeedsRecord
 <2>2. files' \in Content BY <1>10 DEF writePostUpdatesFails, CycleFails, NeedsRecord
 <2> QED BY <1>10, <2>1, <2>2 DEF writePostUpdatesFails, CycleFails
<1>11. CASE noRecordNeeded BY <1>11 DEF noRecordNeeded, CycleDone, calculateLatestUpdateTrigger
<1>12. CASE consumeTrigger BY <1>12 DEF consumeTrigger, calculateLatestUpdateTrigger
<1>13. CASE calculateNextCommunityRecord BY <1>13 DEF calculateNextCommunityRecord, Missed
<1>14. CASE namePublish BY <1>14 DEF namePublish
<1>15. CASE namePublishFails BY <1>15 DEF namePublishFails, CycleFails, NeedsRecord
<1>16. CASE adoptRecord BY <1>16 DEF adoptRecord
<1>17. CASE saveState BY <1>17 DEF saveState, CycleDone
<1>18. CASE syncIpnsWithDbFails
 <2>1. trigger' \in BOOLEAN BY <1>18 DEF syncIpnsWithDbFails, CycleFails, NeedsRecord
 <2>2. pc' = "waiting" /\ failed' = TRUE /\ failedSinceStop' = (failedSinceStop \/ stopCalled) /\ requested' = FALSE /\ DropLocals
       BY <1>18 DEF syncIpnsWithDbFails, CycleFails
 <2> QED BY <1>18, <2>1, <2>2 DEF syncIpnsWithDbFails
<1>19. CASE stop \/ finishStop BY <1>19, ZenonT(60) DEF stop, finishStop
<1>20. CASE crash BY <1>20 DEF crash
<1>21. CASE start BY <1>21 DEF start
<1>22. CASE UNCHANGED vars BY <1>22 DEF vars
<1> QED
    BY <1>1, <1>2, <1>3, <1>4, <1>5, <1>6, <1>7, <1>8, <1>9, <1>10, <1>11, <1>12, <1>13, <1>14, <1>15, <1>16, <1>17, <1>18, <1>19, <1>20, <1>21, <1>22 DEF Next

\* Every step keeps the batch's parts apart, and the trigger on while a batch is in work.
LEMMA BatchStep ==
    ASSUME BoardTypeOK, BatchInv, [Next]_vars
    PROVE  BatchInv'
<1> USE ConstantsAssumption
    DEF BoardTypeOK, BatchInv,
        Content, Phases, Up, VotesOn, Replace, Request, DropLocals,
        dbVars, rowVars, editVars, waitVars, batchVars, draftVars, stopVars
<1>1. ASSUME NEW p \in Post, storeComment(p)
      PROVE  BatchInv'
      BY <1>1 DEF storeComment
<1>2. ASSUME NEW v \in Vote, storeVote(v)
      PROVE  BatchInv'
      BY <1>2 DEF storeVote
<1>3. ASSUME NEW c \in Config, editPropsOnStartedCommunity(c) \/ editPropsOnNotStartedCommunity(c)
      PROVE  BatchInv'
      BY <1>3 DEF editPropsOnStartedCommunity, editPropsOnNotStartedCommunity, MarksAfterLayout
<1>4. CASE NextSecond BY <1>4 DEF NextSecond
<1>5. CASE waitUntilNextSync BY <1>5 DEF waitUntilNextSync, calculateLatestUpdateTrigger, NeedsRecord, shouldStopPublishLoop
<1>6. CASE flagComments BY <1>6 DEF flagComments, Flagged
<1>7. CASE readSlice BY <1>7 DEF readSlice
<1>8. CASE upsertCommentUpdates BY <1>8 DEF upsertCommentUpdates
<1>9. CASE writePostUpdatesToMfs BY <1>9 DEF writePostUpdatesToMfs
<1>10. CASE writePostUpdatesFails BY <1>10 DEF writePostUpdatesFails, CycleFails, NeedsRecord
<1>11. CASE noRecordNeeded BY <1>11 DEF noRecordNeeded, CycleDone, calculateLatestUpdateTrigger
<1>12. CASE consumeTrigger BY <1>12 DEF consumeTrigger, calculateLatestUpdateTrigger
<1>13. CASE calculateNextCommunityRecord BY <1>13 DEF calculateNextCommunityRecord, Missed
<1>14. CASE namePublish BY <1>14 DEF namePublish
<1>15. CASE namePublishFails BY <1>15 DEF namePublishFails, CycleFails, NeedsRecord
<1>16. CASE adoptRecord BY <1>16 DEF adoptRecord
<1>17. CASE saveState BY <1>17 DEF saveState, CycleDone
<1>18. CASE syncIpnsWithDbFails BY <1>18 DEF syncIpnsWithDbFails, CycleFails, NeedsRecord
<1>19. CASE stop \/ finishStop BY <1>19 DEF stop, finishStop
<1>20. CASE crash BY <1>20 DEF crash
<1>21. CASE start BY <1>21 DEF start
<1>22. CASE UNCHANGED vars BY <1>22 DEF vars
<1> QED
    BY <1>1, <1>2, <1>3, <1>4, <1>5, <1>6, <1>7, <1>8, <1>9, <1>10, <1>11, <1>12, <1>13, <1>14, <1>15, <1>16, <1>17, <1>18, <1>19, <1>20, <1>21, <1>22 DEF Next

\* No step loses an uncounted vote from the flag query: the rows carry the stamp
\* taken before the query (comment-updates.ts), so votes since then stay newer.
LEMMA CountStep ==
    ASSUME BoardTypeOK, BatchInv, CountInv, [Next]_vars
    PROVE  CountInv'
<1> USE ConstantsAssumption
    DEF BoardTypeOK, BatchInv, CountInv,
        Content, Phases, Up, VotesOn, Replace, Request, DropLocals,
        dbVars, rowVars, editVars, waitVars, batchVars, draftVars, stopVars
<1>1. ASSUME NEW p \in Post, storeComment(p)
      PROVE  CountInv'
      BY <1>1 DEF storeComment
<1>2. ASSUME NEW v \in Vote, storeVote(v)
      PROVE  CountInv'
      BY <1>2 DEF storeVote
<1>3. ASSUME NEW c \in Config, editPropsOnStartedCommunity(c) \/ editPropsOnNotStartedCommunity(c)
      PROVE  CountInv'
      BY <1>3 DEF editPropsOnStartedCommunity, editPropsOnNotStartedCommunity, MarksAfterLayout
<1>4. CASE NextSecond BY <1>4 DEF NextSecond
<1>5. CASE waitUntilNextSync BY <1>5 DEF waitUntilNextSync, calculateLatestUpdateTrigger, NeedsRecord, shouldStopPublishLoop
<1>6. CASE flagComments BY <1>6 DEF flagComments, Flagged
<1>7. CASE readSlice BY <1>7 DEF readSlice
<1>8. CASE upsertCommentUpdates BY <1>8 DEF upsertCommentUpdates
<1>9. CASE writePostUpdatesToMfs BY <1>9 DEF writePostUpdatesToMfs
<1>10. CASE writePostUpdatesFails BY <1>10 DEF writePostUpdatesFails, CycleFails, NeedsRecord
<1>11. CASE noRecordNeeded BY <1>11 DEF noRecordNeeded, CycleDone, calculateLatestUpdateTrigger
<1>12. CASE consumeTrigger BY <1>12 DEF consumeTrigger, calculateLatestUpdateTrigger
<1>13. CASE calculateNextCommunityRecord BY <1>13 DEF calculateNextCommunityRecord, Missed
<1>14. CASE namePublish BY <1>14 DEF namePublish
<1>15. CASE namePublishFails BY <1>15 DEF namePublishFails, CycleFails, NeedsRecord
<1>16. CASE adoptRecord BY <1>16 DEF adoptRecord
<1>17. CASE saveState BY <1>17 DEF saveState, CycleDone
<1>18. CASE syncIpnsWithDbFails BY <1>18 DEF syncIpnsWithDbFails, CycleFails, NeedsRecord
<1>19. CASE stop \/ finishStop BY <1>19 DEF stop, finishStop
<1>20. CASE crash BY <1>20 DEF crash
<1>21. CASE start BY <1>21 DEF start
<1>22. CASE UNCHANGED vars BY <1>22 DEF vars
<1> QED
    BY <1>1, <1>2, <1>3, <1>4, <1>5, <1>6, <1>7, <1>8, <1>9, <1>10, <1>11, <1>12, <1>13, <1>14, <1>15, <1>16, <1>17, <1>18, <1>19, <1>20, <1>21, <1>22 DEF Next

\* No step marks a row whose file lags behind it, and an upsert clears the mark
\* before the file is written.
LEMMA MarkStep ==
    ASSUME BoardTypeOK, BatchInv, MarkInv, [Next]_vars
    PROVE  MarkInv'
<1> USE ConstantsAssumption
    DEF BoardTypeOK, BatchInv, MarkInv, InMfs,
        Content, Phases, Up, VotesOn, Replace, Request, DropLocals,
        dbVars, rowVars, editVars, waitVars, batchVars, draftVars, stopVars
<1>1. ASSUME NEW p \in Post, storeComment(p)
      PROVE  MarkInv'
      BY <1>1 DEF storeComment
<1>2. ASSUME NEW v \in Vote, storeVote(v)
      PROVE  MarkInv'
      BY <1>2 DEF storeVote
<1>3. ASSUME NEW c \in Config, editPropsOnStartedCommunity(c) \/ editPropsOnNotStartedCommunity(c)
      PROVE  MarkInv'
      BY <1>3 DEF editPropsOnStartedCommunity, editPropsOnNotStartedCommunity, MarksAfterLayout
<1>4. CASE NextSecond BY <1>4 DEF NextSecond
<1>5. CASE waitUntilNextSync BY <1>5 DEF waitUntilNextSync, calculateLatestUpdateTrigger, NeedsRecord, shouldStopPublishLoop
<1>6. CASE flagComments BY <1>6 DEF flagComments, Flagged
<1>7. CASE readSlice BY <1>7 DEF readSlice
<1>8. CASE upsertCommentUpdates BY <1>8 DEF upsertCommentUpdates
<1>9. CASE writePostUpdatesToMfs BY <1>9 DEF writePostUpdatesToMfs
<1>10. CASE writePostUpdatesFails BY <1>10 DEF writePostUpdatesFails, CycleFails, NeedsRecord
<1>11. CASE noRecordNeeded BY <1>11 DEF noRecordNeeded, CycleDone, calculateLatestUpdateTrigger
<1>12. CASE consumeTrigger BY <1>12 DEF consumeTrigger, calculateLatestUpdateTrigger
<1>13. CASE calculateNextCommunityRecord BY <1>13 DEF calculateNextCommunityRecord, Missed
<1>14. CASE namePublish BY <1>14 DEF namePublish
<1>15. CASE namePublishFails BY <1>15 DEF namePublishFails, CycleFails, NeedsRecord
<1>16. CASE adoptRecord BY <1>16 DEF adoptRecord
<1>17. CASE saveState BY <1>17 DEF saveState, CycleDone
<1>18. CASE syncIpnsWithDbFails BY <1>18 DEF syncIpnsWithDbFails, CycleFails, NeedsRecord
<1>19. CASE stop \/ finishStop BY <1>19 DEF stop, finishStop
<1>20. CASE crash BY <1>20 DEF crash
<1>21. CASE start BY <1>21 DEF start
<1>22. CASE UNCHANGED vars BY <1>22 DEF vars
<1> QED
    BY <1>1, <1>2, <1>3, <1>4, <1>5, <1>6, <1>7, <1>8, <1>9, <1>10, <1>11, <1>12, <1>13, <1>14, <1>15, <1>16, <1>17, <1>18, <1>19, <1>20, <1>21, <1>22 DEF Next

\* Files and records only ever grow, also when some writes of a slice fail.
LEMMA ShowStep ==
    ASSUME BoardTypeOK, BatchInv, CountInv, ShowInv, [Next]_vars
    PROVE  ShowInv'
<1> USE ConstantsAssumption
    DEF BoardTypeOK, BatchInv, CountInv, ShowInv,
        Content, Phases, Up, VotesOn, Replace, Request, DropLocals,
        dbVars, rowVars, editVars, waitVars, batchVars, draftVars, stopVars
<1>1. ASSUME NEW p \in Post, storeComment(p)
      PROVE  ShowInv'
      BY <1>1 DEF storeComment
<1>2. ASSUME NEW v \in Vote, storeVote(v)
      PROVE  ShowInv'
      BY <1>2 DEF storeVote
<1>3. ASSUME NEW c \in Config, editPropsOnStartedCommunity(c) \/ editPropsOnNotStartedCommunity(c)
      PROVE  ShowInv'
      BY <1>3 DEF editPropsOnStartedCommunity, editPropsOnNotStartedCommunity, MarksAfterLayout
<1>4. CASE NextSecond BY <1>4 DEF NextSecond
<1>5. CASE waitUntilNextSync BY <1>5 DEF waitUntilNextSync, calculateLatestUpdateTrigger, NeedsRecord, shouldStopPublishLoop
<1>6. CASE flagComments BY <1>6 DEF flagComments, Flagged
<1>7. CASE readSlice BY <1>7 DEF readSlice
<1>8. CASE upsertCommentUpdates BY <1>8 DEF upsertCommentUpdates
<1>9. CASE writePostUpdatesToMfs BY <1>9 DEF writePostUpdatesToMfs
<1>10. CASE writePostUpdatesFails BY <1>10 DEF writePostUpdatesFails, CycleFails, NeedsRecord
<1>11. CASE noRecordNeeded BY <1>11 DEF noRecordNeeded, CycleDone, calculateLatestUpdateTrigger
<1>12. CASE consumeTrigger BY <1>12 DEF consumeTrigger, calculateLatestUpdateTrigger
<1>13. CASE calculateNextCommunityRecord BY <1>13 DEF calculateNextCommunityRecord, Missed
<1>14. CASE namePublish BY <1>14 DEF namePublish
<1>15. CASE namePublishFails BY <1>15 DEF namePublishFails, CycleFails, NeedsRecord
<1>16. CASE adoptRecord BY <1>16 DEF adoptRecord
<1>17. CASE saveState BY <1>17 DEF saveState, CycleDone
<1>18. CASE syncIpnsWithDbFails BY <1>18 DEF syncIpnsWithDbFails, CycleFails, NeedsRecord
<1>19. CASE stop \/ finishStop BY <1>19 DEF stop, finishStop
<1>20. CASE crash BY <1>20 DEF crash
<1>21. CASE start BY <1>21 DEF start
<1>22. CASE UNCHANGED vars BY <1>22 DEF vars
<1> QED
    BY <1>1, <1>2, <1>3, <1>4, <1>5, <1>6, <1>7, <1>8, <1>9, <1>10, <1>11, <1>12, <1>13, <1>14, <1>15, <1>16, <1>17, <1>18, <1>19, <1>20, <1>21, <1>22 DEF Next

\* Whatever a cycle marked and did not publish leaves the trigger armed.
LEMMA OwedStep ==
    ASSUME BoardTypeOK, BatchInv, CountInv, MarkInv, ShowInv, OwedInv, [Next]_vars
    PROVE  OwedInv'
<1> USE ConstantsAssumption
    DEF BoardTypeOK, BatchInv, CountInv, MarkInv, InMfs, ShowInv, OwedInv, OnItsWay,
        Content, Phases, Up, VotesOn, Replace, Request, DropLocals,
        dbVars, rowVars, editVars, waitVars, batchVars, draftVars, stopVars
<1>1. ASSUME NEW p \in Post, storeComment(p)
      PROVE  OwedInv'
      BY <1>1 DEF storeComment
<1>2. ASSUME NEW v \in Vote, storeVote(v)
      PROVE  OwedInv'
      BY <1>2 DEF storeVote
<1>3. ASSUME NEW c \in Config, editPropsOnStartedCommunity(c) \/ editPropsOnNotStartedCommunity(c)
      PROVE  OwedInv'
      BY <1>3 DEF editPropsOnStartedCommunity, editPropsOnNotStartedCommunity, MarksAfterLayout
<1>4. CASE NextSecond BY <1>4 DEF NextSecond
<1>5. CASE waitUntilNextSync BY <1>5 DEF waitUntilNextSync, calculateLatestUpdateTrigger, NeedsRecord, shouldStopPublishLoop
<1>6. CASE flagComments BY <1>6 DEF flagComments, Flagged
<1>7. CASE readSlice BY <1>7 DEF readSlice
<1>8. CASE upsertCommentUpdates BY <1>8 DEF upsertCommentUpdates
<1>9. CASE writePostUpdatesToMfs BY <1>9 DEF writePostUpdatesToMfs
<1>10. CASE writePostUpdatesFails BY <1>10 DEF writePostUpdatesFails, CycleFails, NeedsRecord
<1>11. CASE noRecordNeeded BY <1>11 DEF noRecordNeeded, CycleDone, calculateLatestUpdateTrigger
<1>12. CASE consumeTrigger BY <1>12 DEF consumeTrigger, calculateLatestUpdateTrigger
<1>13. CASE calculateNextCommunityRecord BY <1>13 DEF calculateNextCommunityRecord, Missed
<1>14. CASE namePublish BY <1>14 DEF namePublish
<1>15. CASE namePublishFails BY <1>15 DEF namePublishFails, CycleFails, NeedsRecord
<1>16. CASE adoptRecord BY <1>16 DEF adoptRecord
<1>17. CASE saveState BY <1>17 DEF saveState, CycleDone
<1>18. CASE syncIpnsWithDbFails BY <1>18 DEF syncIpnsWithDbFails, CycleFails, NeedsRecord
<1>19. CASE stop \/ finishStop BY <1>19 DEF stop, finishStop
<1>20. CASE crash BY <1>20 DEF crash
<1>21. CASE start BY <1>21 DEF start
<1>22. CASE UNCHANGED vars BY <1>22 DEF vars
<1> QED
    BY <1>1, <1>2, <1>3, <1>4, <1>5, <1>6, <1>7, <1>8, <1>9, <1>10, <1>11, <1>12, <1>13, <1>14, <1>15, <1>16, <1>17, <1>18, <1>19, <1>20, <1>21, <1>22 DEF Next

(***************************************************************************)
(* The invariant and what follows from it.                                 *)
(***************************************************************************)

\* CycleInv holds in every reachable state of the publish loop.
THEOREM CycleInvariant == Spec => []CycleInv
<1>1. Init => CycleInv
 <2> SUFFICES ASSUME Init PROVE CycleInv OBVIOUS
 <2> USE ConstantsAssumption DEF Init, Content, Phases, Up
 <2>1. BoardTypeOK BY DEF BoardTypeOK
 <2>2. BatchInv /\ CountInv BY DEF BatchInv, CountInv
 <2>3. MarkInv BY DEF MarkInv, InMfs
 <2>4. ShowInv BY DEF ShowInv
 <2>5. OwedInv BY DEF OwedInv, OnItsWay
 <2> QED BY <2>1, <2>2, <2>3, <2>4, <2>5 DEF CycleInv
<1>2. CycleInv /\ [Next]_vars => CycleInv'
 <2> SUFFICES ASSUME CycleInv, [Next]_vars PROVE CycleInv' OBVIOUS
 <2> USE DEF CycleInv
 <2>1. BoardTypeOK' /\ BatchInv' /\ CountInv' BY BoardTypeStep, BatchStep, CountStep
 <2>2. MarkInv' /\ ShowInv' /\ OwedInv' BY MarkStep, ShowStep, OwedStep
 <2> QED BY <2>1, <2>2
<1> QED BY <1>1, <1>2, PTL DEF Spec

\* Issue #209 for any number of votes and seconds: a vote that no row counts is
\* found by the next flag query.
THEOREM NoVoteForgotten == Spec => []UncountedIsFlagged
<1>1. CycleInv => UncountedIsFlagged BY DEF CycleInv, CountInv, UncountedIsFlagged
<1> QED BY <1>1, CycleInvariant, PTL

\* A row with publishedToPostUpdatesMFS = 1 has its content in MFS, for every
\* interleaving of writes, partial MFS failures and crashes.
THEOREM MarksAreHonest == Spec => []MarkedIsInMfs
<1>1. CycleInv => MarkedIsInMfs BY ConstantsAssumption DEF CycleInv, BoardTypeOK, Content, MarkInv, InMfs, MarkedIsInMfs, VotesOn
<1> QED BY <1>1, CycleInvariant, PTL

\* The loop rests with the trigger off only when every stored post and vote is
\* in the record, flagged for the next cycle, or in a bucket the record misses.
THEOREM QuietOwesNothing == Spec => []QuietMeansShown
<1>1. CycleInv => QuietMeansShown
      BY ConstantsAssumption
      DEF CycleInv, BoardTypeOK, Content, CountInv, OwedInv, OnItsWay, Up, QuietMeansShown, Flagged, Shows, PostsIn, VotesOn
<1> QED BY <1>1, CycleInvariant, PTL

\* No stored post or vote is lost on its way to the record, for any posts, votes,
\* slice size and any mixture of failing calls and crashes.
THEOREM WritesAreKept == Spec => []NoWriteLost
<1>1. UncountedIsFlagged /\ MarkedIsInMfs /\ QuietMeansShown => NoWriteLost BY DEF NoWriteLost
<1> QED BY <1>1, NoVoteForgotten, MarksAreHonest, QuietOwesNothing, PTL

\* A record reaches what it was built over except the buckets it misses.
LEMMA MissedParts ==
    ASSUME NEW rec, rec.lists \in Content, rec.missed \subseteq Buckets
    PROVE  \E missed \in SUBSET {ItemsIn(b) : b \in Buckets} : Items(Shows(rec)) = Items(rec.lists) \ UNION missed
<1>1. rec.lists.posts \subseteq Post /\ rec.lists.votes \subseteq Vote BY DEF Content
<1>2. Items(Shows(rec)) = Items(rec.lists) \ UNION {ItemsIn(b) : b \in rec.missed}
    BY <1>1, ConstantsAssumption DEF Items, Shows, ItemsIn, PostsIn, VotesOn
<1> QED BY <1>2

\* The publish cycle implements BoardFeed: the record shows only what was
\* stored and takes back only buckets it misses, whatever fails or crashes.
THEOREM ImplementsBoardFeed == Spec => RefinesBoardFeed
<1> DEFINE view == <<posts \cup cast, Items(record.lists), Items(Shows(record))>>
<1>1. Init => Feed!Init BY ConstantsAssumption DEF Init, Feed!Init, Items, Shows, PostsIn, VotesOn
<1>2. CycleInv /\ CycleInv' /\ [Next]_vars => [Feed!Next]_view
 <2> SUFFICES ASSUME CycleInv, CycleInv', [Next]_vars PROVE [Feed!Next]_view OBVIOUS
 <2>1. /\ posts \subseteq posts' /\ cast \subseteq cast'
       /\ UNCHANGED <<posts, cast>> \/ UNCHANGED record
       BY DEF Next, vars, dbVars, rowVars, editVars, waitVars, batchVars, draftVars, stopVars,
              storeComment, storeVote, editPropsOnStartedCommunity, editPropsOnNotStartedCommunity, NextSecond,
              waitUntilNextSync, flagComments, readSlice, upsertCommentUpdates, writePostUpdatesToMfs,
              writePostUpdatesFails, noRecordNeeded, consumeTrigger, calculateNextCommunityRecord,
              namePublish, namePublishFails, adoptRecord, saveState, syncIpnsWithDbFails, stop, finishStop, crash, start
 <2>2. record' = record \/ (pc = "publishing" /\ record' = draft)
       BY DEF Next, vars, dbVars, rowVars, editVars, waitVars, batchVars, draftVars, stopVars,
              storeComment, storeVote, editPropsOnStartedCommunity, editPropsOnNotStartedCommunity, NextSecond,
              waitUntilNextSync, flagComments, readSlice, upsertCommentUpdates, writePostUpdatesToMfs,
              writePostUpdatesFails, noRecordNeeded, consumeTrigger, calculateNextCommunityRecord,
              namePublish, namePublishFails, adoptRecord, saveState, syncIpnsWithDbFails, stop, finishStop, crash, start
 <2>3. Items(record.lists) \subseteq Items(record.lists)' BY <2>2 DEF CycleInv, ShowInv, Items
 <2>4. Items(record.lists)' \subseteq posts' \cup cast' /\ posts' \cup cast' \subseteq Post \cup Vote
     BY DEF CycleInv, ShowInv, BoardTypeOK, Items
 <2>5. \E missed \in SUBSET {ItemsIn(b) : b \in Buckets} : Items(Shows(record))' = Items(record.lists)' \ UNION missed
     BY MissedParts DEF CycleInv, BoardTypeOK
 <2>6. CASE UNCHANGED <<posts, cast>> BY <2>3, <2>4, <2>5, <2>6 DEF Feed!Next, Feed!Publish
 <2>7. CASE UNCHANGED record BY <2>1, <2>4, <2>7 DEF Feed!Next, Feed!Store, Items, Shows
 <2> QED BY <2>1, <2>6, <2>7
<1> QED BY <1>1, <1>2, CycleInvariant, PTL DEF Spec, RefinesBoardFeed, Feed!Spec

(***************************************************************************)
(* The owner's edits.                                                      *)
(***************************************************************************)

\* Only stop() and a crash take a community down.
StopsAreCounted ==
    /\ stopCalled \/ ~Up \/ pc = "stopping" => stops > 0

LastPending == pending[Len(pending)]

\* What is pending ends with the last edit, or there is nothing pending and the
\* record has it.  A record that is being published has it, unless it was made
\* since; then it is no edit of the record's.
EditsFollow ==
    Up /\ stops = 0 /\ ~repeats =>
        /\ props.config = lastEdit
        /\ IF pending = <<>> THEN record.config = lastEdit ELSE LastPending = lastEdit
        /\ pc \in {"publishing", "adopting"} /\ (pending = <<>> \/ LastPending \in draftIds) =>
               draft.config = lastEdit /\ \A i \in 1..Len(pending) : pending[i] \in draftIds

EditInv ==
    /\ BoardTypeOK /\ EditTypeOK /\ StopsAreCounted /\ EditsFollow
    /\ pc = "adopting" => record.config = draft.config

\* The edits that stay are some of those that were pending; the last one stays
\* unless the record carries it.
LEMMA DroppedEdits ==
    ASSUME pending \in Seq(Config), DropPublishedEdits
    PROVE  /\ pending' \in Seq(Config)
           /\ pending # <<>> /\ LastPending \notin draftIds => pending' # <<>> /\ LastPending' = LastPending
           /\ (\A i \in 1..Len(pending) : pending[i] \in draftIds) => pending' = <<>>
<1>1. PICK n \in 0..Len(pending) : \E place \in [1..n -> DOMAIN pending] :
        /\ \A i, j \in 1..n : i < j => place[i] < place[j]
        /\ {place[i] : i \in 1..n} = {i \in DOMAIN pending : pending[i] \notin draftIds}
        /\ pending' = [i \in 1..n |-> pending[place[i]]]
    BY Zenon DEF DropPublishedEdits
<1>2. PICK place \in [1..n -> DOMAIN pending] :
        /\ \A i, j \in 1..n : i < j => place[i] < place[j]
        /\ {place[i] : i \in 1..n} = {i \in DOMAIN pending : pending[i] \notin draftIds}
        /\ pending' = [i \in 1..n |-> pending[place[i]]]
    BY <1>1, Zenon
<1>3. DOMAIN pending = 1..Len(pending) /\ Len(pending) \in Nat /\ n \in Nat OBVIOUS
<1>4. \A i \in 1..n : place[i] \in 1..Len(pending) /\ pending[place[i]] \in Config BY <1>3
<1>5. pending' \in Seq(Config) /\ Len(pending') = n /\ \A i \in 1..n : pending'[i] = pending[place[i]] BY <1>2, <1>3, <1>4
<1>6. ASSUME pending # <<>>, LastPending \notin draftIds
      PROVE  pending' # <<>> /\ LastPending' = LastPending
 <2>1. Len(pending) \in DOMAIN pending BY <1>3, <1>6
 <2>2. Len(pending) \in {place[i] : i \in 1..n} BY <1>2, <1>6, <2>1 DEF LastPending
 <2>3. PICK k \in 1..n : place[k] = Len(pending) BY <2>2
 <2>4. k = n
  <3>1. CASE k < n
   <4>1. n \in 1..n /\ place[k] < place[n] /\ place[n] \in 1..Len(pending) BY <1>2, <1>3, <1>4, <3>1
   <4>2. QED BY <1>3, <2>3, <4>1
  <3>2. QED BY <1>3, <3>1
 <2>5. pending' # <<>> BY <1>5, <2>3
 <2>6. QED BY <1>5, <2>3, <2>4, <2>5 DEF LastPending
<1>7. ASSUME \A i \in 1..Len(pending) : pending[i] \in draftIds
      PROVE  pending' = <<>>
 <2>1. n = 0
  <3>1. CASE n > 0
   <4>1. 1 \in 1..n BY <1>3, <3>1
   <4>2. place[1] \in {i \in DOMAIN pending : pending[i] \notin draftIds} BY <1>2, <4>1
   <4>3. QED BY <1>3, <1>7, <4>2
  <3>2. QED BY <1>3, <3>1
 <2>2. QED BY <1>5, <2>1
<1>8. QED BY <1>5, <1>6, <1>7

\* A new edit is the last pending one.
LEMMA AppendedEdit ==
    ASSUME pending \in Seq(Config), NEW c \in Config, pending' = Append(pending, c)
    PROVE  pending' \in Seq(Config) /\ pending' # <<>> /\ LastPending' = c
BY DEF LastPending

\* Every step keeps the types of what the edits go through.
LEMMA EditTypeStep ==
    ASSUME BoardTypeOK, EditTypeOK, [Next]_vars
    PROVE  EditTypeOK'
<1> USE ConstantsAssumption
    DEF EditTypeOK, Props, Record, PropsOf, Saved,
        DropLocals, dbVars, rowVars, editVars, waitVars, batchVars, draftVars, stopVars
<1>0. \A c \in Config : Layout[c] \in Layouts BY DEF Layouts
<1>1. ASSUME NEW p \in Post, storeComment(p)
      PROVE  EditTypeOK'
      BY <1>1 DEF storeComment
<1>2. ASSUME NEW v \in Vote, storeVote(v)
      PROVE  EditTypeOK'
      BY <1>2 DEF storeVote
<1>3. ASSUME NEW c \in Config, editPropsOnStartedCommunity(c)
      PROVE  EditTypeOK'
 <2>1. pending' \in Seq(Config) BY <1>3, AppendedEdit DEF editPropsOnStartedCommunity
 <2>2. raw' \in Props /\ props' \in Props BY <1>3 DEF editPropsOnStartedCommunity
 <2>3. db' \in [props : Props, layout : Layouts, fingerprint : Layouts] /\ layout' \in Layouts BY <1>0, <1>3 DEF editPropsOnStartedCommunity
 <2>4. UNCHANGED <<latest, rowLayout, calc, record, draft, draftIds, stops>> /\ lastEdit' = c /\ edits' = edits + 1
       /\ repeats' \in BOOLEAN
     BY <1>3 DEF editPropsOnStartedCommunity
 <2>5. QED BY <2>1, <2>2, <2>3, <2>4
<1>4. ASSUME NEW c \in Config, editPropsOnNotStartedCommunity(c)
      PROVE  EditTypeOK'
 <2>1. db'.props \in Props /\ db' \in [props : Props, layout : Layouts, fingerprint : Layouts] /\ layout' \in Layouts
     BY <1>0, <1>4 DEF editPropsOnNotStartedCommunity
 <2>2. raw' = db'.props /\ props' = db'.props BY <1>4 DEF editPropsOnNotStartedCommunity
 <2>3. UNCHANGED <<latest, rowLayout, calc, record, draft, draftIds, pending, stops>> /\ lastEdit' = c /\ edits' = edits + 1
       /\ repeats' \in BOOLEAN
     BY <1>4 DEF editPropsOnNotStartedCommunity
 <2>4. QED BY <2>1, <2>2, <2>3
<1>5. CASE NextSecond \/ waitUntilNextSync \/ flagComments \/ writePostUpdatesToMfs \/ stop
      BY <1>5 DEF NextSecond, waitUntilNextSync, flagComments, writePostUpdatesToMfs, stop
<1>6. CASE readSlice BY <1>6 DEF readSlice
<1>7. CASE upsertCommentUpdates BY <1>7 DEF upsertCommentUpdates
<1>8. CASE writePostUpdatesFails BY <1>8 DEF writePostUpdatesFails, CycleFails
<1>9. CASE noRecordNeeded BY <1>9 DEF noRecordNeeded, CycleDone
<1>10. CASE consumeTrigger BY <1>10 DEF consumeTrigger
<1>11. CASE calculateNextCommunityRecord
 <2>1. ConfigToPublish \in Config /\ EditIds(pending) \subseteq Config BY DEF ConfigToPublish, EditIds
 <2>2. files \in Content BY DEF BoardTypeOK
 <2>3. Missed \subseteq SUBSET Buckets BY DEF Missed
 <2>4. QED BY <1>11, <2>1, <2>2, <2>3 DEF calculateNextCommunityRecord
<1>12. CASE namePublish BY <1>12 DEF namePublish
<1>13. CASE namePublishFails BY <1>13 DEF namePublishFails, CycleFails
<1>14. CASE adoptRecord
 <2>1. pending' \in Seq(Config) BY <1>14, DroppedEdits DEF adoptRecord
 <2>2. raw' \in Props BY <1>14 DEF adoptRecord
 <2>3. props' \in Props
  <3>1. pending' = <<>> \/ pending'[Len(pending')] \in Config BY <2>1
  <3>2. QED BY <1>14, <2>2, <3>1 DEF adoptRecord
 <2>4. QED BY <1>14, <2>1, <2>2, <2>3 DEF adoptRecord
<1>15. CASE saveState BY <1>15 DEF saveState, CycleDone
<1>16. CASE syncIpnsWithDbFails BY <1>16 DEF syncIpnsWithDbFails, CycleFails
<1>17. CASE finishStop BY <1>17 DEF finishStop
<1>18. CASE crash BY <1>18 DEF crash
<1>19. CASE start
 <2>1. pending' \in Seq(Config) /\ lastEdit' \in Config
  <3>1. CASE pending' = <<>> /\ lastEdit' = db.props.config BY <3>1
  <3>2. CASE UNCHANGED <<pending, lastEdit>> BY <3>2
  <3>3. QED BY <1>19, <3>1, <3>2 DEF start
 <2>2. props' \in Props /\ raw' \in Props /\ layout' \in Layouts
       /\ db' \in [props : Props, layout : Layouts, fingerprint : Layouts]
     BY <1>19 DEF start
 <2>3. UNCHANGED <<latest, rowLayout, calc, record, draft, draftIds, repeats, edits, stops>> BY <1>19 DEF start
 <2>4. QED BY <2>1, <2>2, <2>3
<1>20. CASE UNCHANGED vars BY <1>20 DEF vars
<1> QED
    BY <1>1, <1>2, <1>3, <1>4, <1>5, <1>6, <1>7, <1>8, <1>9, <1>10, <1>11, <1>12, <1>13, <1>14, <1>15, <1>16, <1>17, <1>18, <1>19, <1>20 DEF Next

\* A step that leaves the edits, the record and what the instance shows alone,
\* and neither builds a record nor publishes it.
LEMMA EditsRest ==
    ASSUME EditInv, BoardTypeOK', EditTypeOK', UNCHANGED <<editVars, stops>>,
           pc' \notin {"publishing", "adopting"} \/ UNCHANGED <<pc, draft, draftIds, record>>,
           record' \in {record, draft} /\ (record' = record \/ pc = "publishing"),
           pc' = "stopping" => stopCalled \/ pc = "stopping", ~Up' => ~Up \/ pc = "stopping", UNCHANGED stopCalled
    PROVE  EditInv'
<1>1. StopsAreCounted' BY DEF EditInv, StopsAreCounted
<1>2. Up' /\ stops = 0 => Up BY DEF EditInv, StopsAreCounted
<1>3. EditsFollow' BY <1>2 DEF EditInv, EditsFollow, LastPending, editVars
<1>4. QED BY <1>1, <1>3 DEF EditInv

\* Every step keeps the last edit on its way to the record.
LEMMA EditStep ==
    ASSUME EditInv, [Next]_vars
    PROVE  EditInv'
<1>0. BoardTypeOK /\ EditTypeOK /\ StopsAreCounted /\ EditsFollow /\ BoardTypeOK' /\ EditTypeOK' BY BoardTypeStep, EditTypeStep DEF EditInv
<1> USE DEF dbVars, rowVars, editVars, waitVars, batchVars, draftVars, stopVars, Request
<1>1. ASSUME NEW p \in Post, storeComment(p)
      PROVE  EditInv'
      BY <1>0, <1>1, EditsRest DEF storeComment, Up
<1>2. ASSUME NEW v \in Vote, storeVote(v)
      PROVE  EditInv'
      BY <1>0, <1>2, EditsRest DEF storeVote, Up
<1>3. ASSUME NEW c \in Config, editPropsOnStartedCommunity(c)
      PROVE  EditInv'
 <2>1. pending' # <<>> /\ LastPending' = c /\ props'.config = c
     BY <1>0, <1>3, AppendedEdit DEF editPropsOnStartedCommunity, EditTypeOK, Props
 <2>2. UNCHANGED <<pc, stopCalled, stops, draft, draftIds, record>> /\ lastEdit' = c
       /\ repeats' = (pc \in {"publishing", "adopting"} /\ c \in draftIds)
     BY <1>3 DEF editPropsOnStartedCommunity
 <2>3. EditsFollow' /\ StopsAreCounted' BY <1>0, <2>1, <2>2 DEF EditsFollow, StopsAreCounted, Up
 <2>4. QED BY <1>0, <2>2, <2>3 DEF EditInv
<1>4. ASSUME NEW c \in Config, editPropsOnNotStartedCommunity(c)
      PROVE  EditInv'
      BY <1>0, <1>4 DEF editPropsOnNotStartedCommunity, EditInv, EditsFollow, StopsAreCounted, Up
<1>5. CASE NextSecond \/ flagComments \/ readSlice \/ upsertCommentUpdates \/ writePostUpdatesToMfs \/ consumeTrigger
      BY <1>0, <1>5, EditsRest DEF NextSecond, flagComments, readSlice, upsertCommentUpdates, writePostUpdatesToMfs, consumeTrigger, Up
<1>6. CASE waitUntilNextSync BY <1>0, <1>6, EditsRest DEF waitUntilNextSync, shouldStopPublishLoop, Up
<1>7. CASE writePostUpdatesFails \/ namePublishFails \/ syncIpnsWithDbFails
      BY <1>0, <1>7, EditsRest DEF writePostUpdatesFails, namePublishFails, syncIpnsWithDbFails, CycleFails, Up
<1>8. CASE noRecordNeeded \/ saveState BY <1>0, <1>8, EditsRest DEF noRecordNeeded, saveState, CycleDone, Up
<1>9. CASE calculateNextCommunityRecord
 <2>1. draft'.config = ConfigToPublish /\ draftIds' = EditIds(pending) /\ pc' = "publishing" /\ pc = "building"
       /\ UNCHANGED <<pending, props, lastEdit, repeats, record, stops, stopCalled>>
     BY <1>9 DEF calculateNextCommunityRecord
 <2>2. EditsFollow' BY <1>0, <2>1 DEF EditsFollow, ConfigToPublish, EditIds, LastPending, Up
 <2>3. StopsAreCounted' BY <1>0, <2>1 DEF StopsAreCounted, Up
 <2>4. QED BY <1>0, <2>1, <2>2, <2>3 DEF EditInv
<1>10. CASE namePublish
 <2>1. record' = draft /\ pc' = "adopting" /\ pc = "publishing"
       /\ UNCHANGED <<pending, props, lastEdit, repeats, draft, draftIds, stops, stopCalled>>
     BY <1>10 DEF namePublish
 <2>2. EditsFollow' BY <1>0, <2>1 DEF EditsFollow, LastPending, Up
 <2>3. StopsAreCounted' BY <1>0, <2>1 DEF StopsAreCounted, Up
 <2>4. QED BY <1>0, <2>1, <2>2, <2>3 DEF EditInv
<1>11. CASE adoptRecord
 <2>1. DropPublishedEdits /\ pc' = "saving" /\ pc = "adopting" /\ record.config = draft.config
       /\ UNCHANGED <<record, draft, draftIds, lastEdit, repeats, stops, stopCalled>>
     BY <1>11 DEF adoptRecord, EditInv
 <2>2. raw'.config = draft.config /\ props'.config = IF pending' = <<>> THEN draft.config ELSE LastPending'
     BY <1>0, <1>11 DEF adoptRecord, PropsOf, EditTypeOK, Record, LastPending
 <2>3. /\ pending # <<>> /\ LastPending \notin draftIds => pending' # <<>> /\ LastPending' = LastPending
       /\ (\A i \in 1..Len(pending) : pending[i] \in draftIds) => pending' = <<>>
     BY <1>0, <2>1, DroppedEdits DEF EditTypeOK
 <2>4. EditsFollow' BY <1>0, <2>1, <2>2, <2>3 DEF EditsFollow, Up
 <2>5. StopsAreCounted' BY <1>0, <2>1 DEF StopsAreCounted, Up
 <2>6. QED BY <1>0, <2>1, <2>4, <2>5 DEF EditInv
<1>12. CASE stop BY <1>0, <1>12 DEF stop, EditInv, EditTypeOK, EditsFollow, StopsAreCounted, Up
<1>13. CASE finishStop BY <1>0, <1>13, EditsRest DEF finishStop, Up
<1>14. CASE crash BY <1>0, <1>14 DEF crash, EditInv, EditTypeOK, EditsFollow, StopsAreCounted, Up
<1>15. CASE start BY <1>0, <1>15 DEF start, EditInv, EditTypeOK, EditsFollow, StopsAreCounted, Up
<1>16. CASE UNCHANGED vars BY <1>0, <1>16, EditsRest DEF vars, Up
<1> QED BY <1>1, <1>2, <1>3, <1>4, <1>5, <1>6, <1>7, <1>8, <1>9, <1>10, <1>11, <1>12, <1>13, <1>14, <1>15, <1>16 DEF Next

\* Until it is stopped, a community shows the owner's last edit, and a loop at
\* rest has published it, for any number of edits at any await of a cycle and
\* whatever fails; except for an edit that repeats one of the record that is
\* being published, which the code takes for that one.
THEOREM LastEditIsKept == Spec => []EditsAreKept
<1>1. Init => EditInv
 <2> SUFFICES ASSUME Init PROVE EditInv OBVIOUS
 <2>1. BoardTypeOK BY ConstantsAssumption DEF Init, Content, Phases, Up, BoardTypeOK
 <2>2. EditTypeOK
  <3>1. Layout[InitialConfig] \in Layouts /\ InitialConfig \in Config BY ConstantsAssumption DEF Layouts
  <3>2. latest \in Post \cup {None} /\ rowLayout \in [Post -> Layouts] /\ calc.layout \in Layouts /\ layout \in Layouts
      BY <3>1, ConstantsAssumption DEF Init
  <3>3. record \in Record /\ draft \in Record BY <2>1, <3>1, <3>2 DEF Init, Record, BoardTypeOK
  <3>4. props \in Props /\ raw \in Props BY <3>1, <3>2 DEF Init, Props, PropsOf
  <3>5. db \in [props : Props, layout : Layouts, fingerprint : Layouts] BY <3>2, <3>4 DEF Init
  <3>6. draftIds \subseteq Config /\ lastEdit \in Config /\ repeats \in BOOLEAN /\ edits \in Nat /\ stops \in Nat BY <3>1 DEF Init
  <3>7. pending \in Seq(Config)
   <4>1. pending = <<>> BY DEF Init
   <4>2. QED BY <4>1
  <3>8. QED BY <3>2, <3>3, <3>4, <3>5, <3>6, <3>7 DEF EditTypeOK
 <2>3. QED BY <2>1, <2>2 DEF Init, EditInv, EditsFollow, StopsAreCounted, PropsOf, Up
<1>2. EditInv /\ [Next]_vars => EditInv' BY EditStep
<1>3. EditInv => EditsAreKept BY DEF EditInv, EditsFollow, EditsAreKept, InstanceShowsLastEdit, EditPublished, Up
<1> QED BY <1>1, <1>2, <1>3, PTL DEF Spec
========================================
