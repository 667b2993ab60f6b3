--------------------------- MODULE WikiLintProofs ---------------------------
(***************************************************************************)
(* Theorems about lint and the ledger, for any claims, pages, linters and  *)
(* bounds on the pairs that are judged.                                    *)
(***************************************************************************)
EXTENDS WikiLint, TLAPS

-----------------------------------------------------------------------------
(* Types *)

LEMMA NamesClaims ==
    ASSUME NEW p \in Page, NEW c \in Claim
    PROVE  /\ OnlyPage(p) \subseteq Claim /\ PageAndId(c) \subseteq Claim /\ PageAndWords(c) \subseteq Claim
           /\ Mentions[c] \subseteq Claim /\ Quotes[c] \subseteq Claim
  <1>1. Loose \subseteq Claim /\ Mentions[c] \subseteq Claim /\ Quotes[c] \subseteq Claim
    BY LintConstants
  <1> QED BY <1>1 DEF OnlyPage, PageAndId, PageAndWords

LEMMA TypeInit == Init => TypeOK
  <1> SUFFICES ASSUME Init PROVE TypeOK
    OBVIOUS
  <1>1. page \in [Claim -> Status]
    BY DEF Init, Status
  <1>2. UNION {OnlyPage(PageOf[c]) : c \in Filed} \subseteq Claim /\ Filed \subseteq Claim
    BY LintConstants, NamesClaims
  <1>3. open \in [Claim -> [Kind -> Reason]]
    BY DEF Init, Reason
  <1>4. fresh \in [Linter -> [Claim -> Status]]
    BY DEF Init, NoClaims, Status
  <1> QED BY <1>1, <1>2, <1>3, <1>4 DEF Init, TypeOK

LEMMA PutTyped ==
    ASSUME TypeOK, NEW c \in Claim, NEW status \in Status, Put(c, status)
    PROVE  page' \in [Claim -> Status] /\ late' \in [Linter -> SUBSET Claim]
  BY DEF TypeOK, Put, Noticed

LEMMA ResolvedTyped ==
    ASSUME NEW resolution \in Resolution, NEW old \in Status
    PROVE  /\ Resolved(resolution, old) \in Status /\ TraceOf(resolution) \in Trace
           /\ old = "absent" => Resolved(resolution, old) = "absent"
  <1>1. TraceOf(resolution) \in Trace
    BY DEF TraceOf, Resolution, Trace
  <1>2. CASE old = "absent"
    BY <1>1, <1>2 DEF Resolved, Status
  <1>3. CASE old # "absent"
    BY <1>1, <1>3 DEF Resolved, Status, Resolution
  <1> QED BY <1>2, <1>3

LEMMA PairsNameClaims ==
    ASSUME named \subseteq Claim, NEW pr \in SUBSET Claim, NamesPages(pr)
    PROVE  named' \subseteq Claim
  <1>1. UNION {OnlyPage(PageOf[c]) : c \in pr} \subseteq Claim
    BY LintConstants, NamesClaims
  <1> QED BY <1>1 DEF NamesPages

LEMMA FirstOfIsSubset ==
    ASSUME NEW n, NEW candidates, NEW some \in FirstOf(n, candidates)
    PROVE  some \subseteq candidates
  BY DEF FirstOf

LEMMA ForgetTyped ==
    ASSUME TypeOK, NEW s \in Linter, Forget(s)
    PROVE  /\ step' \in [Linter -> {"idle", "ledger", "relate", "write", "merge"}]
           /\ {fix', judge'} \subseteq [Linter -> BOOLEAN]
           /\ writing' \in [Linter -> SUBSET Page]
           /\ seen' \in [Linter -> SUBSET Claim]
           /\ fresh' \in [Linter -> [Claim -> Status]]
           /\ raise' \in [Linter -> SUBSET Item]
           /\ pairs' \in [Linter -> SUBSET Pair]
           /\ marked' \in [Linter -> SUBSET Page]
           /\ late' \in [Linter -> SUBSET Claim]
           /\ \A t \in Linter :
                 /\ step'[t] \in {"idle", "ledger"} => raise'[t] = {} /\ pairs'[t] = {} /\ marked'[t] = {}
                 /\ writing'[t] \subseteq marked'[t]
                 /\ step'[t] = "write" <=> writing'[t] # {}
  <1>1. NoClaims \in [Claim -> Status]
    BY DEF NoClaims, Status
  <1>2. fresh' \in [Linter -> [Claim -> Status]]
    BY <1>1 DEF TypeOK, Forget
  <1>3. raise' \in [Linter -> SUBSET Item] /\ pairs' \in [Linter -> SUBSET Pair]
    BY DEF TypeOK, Forget
  <1> QED BY <1>2, <1>3 DEF TypeOK, Forget

LEMMA TypeStep == TypeOK /\ [Next]_vars => TypeOK'
  <1> SUFFICES ASSUME TypeOK, [Next]_vars
               PROVE  TypeOK'
    OBVIOUS
  <1> USE LintConstants
  <1>1. ASSUME NEW c \in Claim, Accept(c) \/ File(c) \/ FileRecord(c) \/ WriteByHand(c) \/ SyncChecks(c)
        PROVE  TypeOK'
    <2>1. "verified" \in Status
      BY DEF Status
    <2>2. CASE Accept(c)
      BY <2>2 DEF TypeOK, Accept, lintVars
    <2>3. CASE File(c) \/ WriteByHand(c)
      BY <2>3, <2>1, PutTyped DEF TypeOK, File, WriteByHand, lintVars, ledgerVars
    <2>4. CASE FileRecord(c)
      BY <2>4, NamesClaims DEF TypeOK, FileRecord, lintVars
    <2>5. CASE SyncChecks(c)
      BY <2>5, NamesClaims DEF TypeOK, SyncChecks, lintVars
    <2> QED BY <1>1, <2>2, <2>3, <2>4, <2>5
  <1>2. ASSUME NEW p \in Page, NEW o \in SUBSET Claim, Finalize(p, o)
        PROVE  TypeOK'
    <2>1. OnlyPage(p) \subseteq Claim
      BY LintConstants DEF OnlyPage
    <2> QED BY <1>2, <2>1 DEF TypeOK, Finalize, lintVars
  <1>3. ASSUME NEW c \in Claim, NEW k \in Kind, NEW r \in Resolution, NEW no \in BOOLEAN,
               ReviewApply(c, k, r, no)
        PROVE  TypeOK'
    <2>1. page[c] \in Status
      BY DEF TypeOK
    <2>2. Resolved(r, page[c]) \in Status /\ TraceOf(r) \in Trace
      BY <2>1, ResolvedTyped
    <2>3. page' \in [Claim -> Status] /\ late' \in [Linter -> SUBSET Claim]
      <3>1. CASE no
        BY <3>1, <1>3 DEF ReviewApply, TypeOK
      <3>2. CASE ~no
        BY <3>2, <1>3, <2>2, PutTyped DEF ReviewApply
      <3> QED BY <3>1, <3>2
    <2>4. review' \in Reviewing
      <3>1. open[c][k] \in Reason
        BY DEF TypeOK
      <3> QED BY <1>3, <2>2, <3>1 DEF ReviewApply, Reviewing, Trace
    <2> QED BY <1>3, <2>3, <2>4 DEF TypeOK, ReviewApply, lintVars, ledgerVars
  <1>4. CASE ReviewResolve
    <2>1. review \in Reviewing
      BY <1>4 DEF TypeOK, ReviewResolve, NoReview
    <2>2. review' \in Reviewing \cup {NoReview}
      BY <1>4, <2>1 DEF ReviewResolve, Reviewing, Kind
    <2>3. open' \in [Claim -> [Kind -> Reason]]
      BY <1>4, <2>1 DEF TypeOK, ReviewResolve, Reviewing, Reason
    <2> QED BY <1>4, <2>2, <2>3 DEF TypeOK, ReviewResolve, lintVars, ledgerVars
  <1>5. ASSUME NEW noted \in BOOLEAN, ReviewRecord(noted)
        PROVE  TypeOK'
    <2>1. review \in Reviewing
      BY <1>5 DEF TypeOK, ReviewRecord, NoReview
    <2>2. review.claim \in Claim /\ review.reason \in Reason
      BY <2>1 DEF Reviewing
    <2>3. ById \subseteq Claim
      BY <2>2 DEF ById
    <2>4. ByWords(noted) \subseteq Claim
      BY <2>2 DEF ByWords, Reason, NoItem, NoEntry, None
    <2>5. ByPage(noted) \subseteq Page
      BY <2>2 DEF ByPage, Reason, NoItem, NoEntry, None
    <2>6. UNION ({PageAndId(c) : c \in ById} \cup {PageAndWords(c) : c \in ByWords(noted)}
                 \cup {OnlyPage(p) : p \in ByPage(noted)}) \subseteq Claim
      <3>1. \A c \in Claim : PageOf[c] \in Page
        BY LintConstants
      <3>2. \A c \in Claim : PageAndId(c) \subseteq Claim /\ PageAndWords(c) \subseteq Claim
        BY <3>1, NamesClaims
      <3>3. \A p \in Page : OnlyPage(p) \subseteq Claim
        BY LintConstants DEF OnlyPage
      <3> QED BY <2>3, <2>4, <2>5, <3>2, <3>3
    <2>7. UNION ({Mentions[c] : c \in ById} \cup {Quotes[c] : c \in ByWords(noted)}) \subseteq Claim
      <3>1. \A c \in Claim : Mentions[c] \subseteq Claim /\ Quotes[c] \subseteq Claim
        BY LintConstants
      <3> QED BY <2>3, <2>4, <3>1
    <2>8. accepted' \subseteq Claim /\ named' \subseteq Claim /\ decided' \subseteq Claim
      BY <1>5, <2>2, <2>6, <2>7 DEF TypeOK, ReviewRecord
    <2> QED BY <1>5, <2>8 DEF TypeOK, ReviewRecord, lintVars
  <1>6. ASSUME NEW s \in Linter, NEW mode \in Modes, Start(s, mode[1], mode[2])
        PROVE  TypeOK'
    <2>1. mode[1] \in BOOLEAN /\ mode[2] \in BOOLEAN
      OBVIOUS
    <2>2. /\ fix' \in [Linter -> BOOLEAN] /\ judge' \in [Linter -> BOOLEAN]
          /\ seen' \in [Linter -> SUBSET Claim]
      BY <1>6, <2>1 DEF TypeOK, Start
    <2> QED BY <1>6, <2>2 DEF TypeOK, Start, others, ledgerVars
  <1>7. ASSUME NEW s \in Linter, NEW p \in marked[s], Reread(s, p)
        PROVE  TypeOK'
    <2> DEFINE read == [c \in Claim |-> IF PageOf[c] = p THEN page[c] ELSE "absent"]
    <2>1. read \in [Claim -> Status]
      BY DEF TypeOK, Status
    <2>2. fresh' = [fresh EXCEPT ![s] = read]
      BY <1>7 DEF Reread
    <2> HIDE DEF read
    <2>3. fresh' \in [Linter -> [Claim -> Status]]
      BY <2>1, <2>2 DEF TypeOK
    <2>4. writing' \in [Linter -> SUBSET Page]
      BY <1>7 DEF TypeOK, Reread
    <2> QED BY <1>7, <2>3, <2>4 DEF TypeOK, Reread, others, ledgerVars
  <1>8. ASSUME NEW s \in Linter, NEW chosen \in SUBSET Shares, ReadLedger(s, chosen)
        PROVE  TypeOK'
    <2> DEFINE unbacked == {c \in seen[s] : ~Backed(c) /\ c \notin named}
               queued == IF fix[s]
                         THEN [claim : unbacked, kind : {"claim_review"}, reason : {NoEntry}]
                         ELSE {}
    <2>1. queued \subseteq Item
      BY DEF TypeOK, Item, Kind, Reason
    <2>2. raise' = [raise EXCEPT ![s] = queued]
      BY <1>8 DEF ReadLedger
    <2> HIDE DEF queued
    <2>3. raise' \in [Linter -> SUBSET Item]
      BY <2>1, <2>2 DEF TypeOK
    <2>4. pairs' \in [Linter -> SUBSET Pair]
      BY <1>8 DEF TypeOK, ReadLedger, Pair
    <2>5. step[s] = "ledger" /\ step' = [step EXCEPT ![s] = "relate"]
      BY <1>8 DEF ReadLedger
    <2>6. UNCHANGED <<others, ledgerVars, open, fix, judge, writing, seen, marked, fresh, late>>
      BY <1>8 DEF ReadLedger
    <2> QED BY <2>2, <2>3, <2>4, <2>5, <2>6, <1>8 DEF TypeOK, ReadLedger, others, ledgerVars
  <1>9. ASSUME NEW s \in Linter, NEW item \in raise[s], Enqueue(s, item)
        PROVE  TypeOK'
    <2>1. item.claim \in Claim /\ item.kind \in Kind /\ item.reason \in Reason
      BY DEF TypeOK, Item
    <2>2. open' \in [Claim -> [Kind -> Reason]]
      BY <1>9, <2>1 DEF TypeOK, Enqueue
    <2>3. raise' \in [Linter -> SUBSET Item]
      BY <1>9 DEF TypeOK, Enqueue
    <2> QED BY <1>9, <2>2, <2>3 DEF TypeOK, Enqueue, others, ledgerVars
  <1>10. ASSUME NEW s \in Linter, NEW pr \in pairs[s], NEW yes \in BOOLEAN, Relate(s, pr, yes)
         PROVE  TypeOK'
    <2>1. pr \in SUBSET Claim
      BY DEF TypeOK, Pair
    <2>2. named' \subseteq Claim
      BY <1>10, <2>1, PairsNameClaims DEF TypeOK, Relate
    <2> DEFINE queued == IF yes /\ fix[s]
                         THEN {Dispute(o[1], o[2]) : o \in {o \in pr \X pr : o[1] # o[2]}} ELSE {}
               pagesOf == {PageOf[c] : c \in pr}
    <2>3. queued \subseteq Item /\ pagesOf \subseteq Page
      BY <2>1 DEF TypeOK, Item, Kind, Reason, Dispute
    <2>4. /\ raise' = [raise EXCEPT ![s] = queued]
          /\ marked' = [marked EXCEPT ![s] = IF yes /\ fix[s] THEN @ \cup pagesOf ELSE @]
      BY <1>10 DEF Relate
    <2> HIDE DEF queued, pagesOf
    <2>5. raise' \in [Linter -> SUBSET Item] /\ marked' \in [Linter -> SUBSET Page]
      BY <2>3, <2>4 DEF TypeOK
    <2>6. pairs' \in [Linter -> SUBSET Pair]
      BY <1>10 DEF TypeOK, Relate
    <2>7. /\ step[s] = "relate"
          /\ UNCHANGED <<others, accepted, open, step, fix, judge, writing, seen, fresh, late>>
          /\ pairs' = [pairs EXCEPT ![s] = @ \ {pr}]
      BY <1>10 DEF Relate
    <2> QED BY <2>2, <2>4, <2>5, <2>6, <2>7 DEF TypeOK, others
  <1>11. ASSUME NEW s \in Linter, Rewrite(s)
         PROVE  TypeOK'
    <2>1. page' \in [Claim -> Status]
      BY <1>11 DEF TypeOK, Rewrite
    <2>2. NoClaims \in [Claim -> Status]
      BY DEF NoClaims, Status
    <2>3. fresh' \in [Linter -> [Claim -> Status]]
      BY <1>11, <2>2 DEF TypeOK, Rewrite
    <2>4. /\ marked' \in [Linter -> SUBSET Page] /\ writing' \in [Linter -> SUBSET Page]
          /\ late' \in [Linter -> SUBSET Claim]
      BY <1>11 DEF TypeOK, Rewrite, Noticed
    <2> QED BY <1>11, <2>1, <2>3, <2>4 DEF TypeOK, Rewrite, ledgerVars
  <1>12. ASSUME NEW s \in Linter, NEW chosen \in SUBSET Pair, Compare(s, chosen)
         PROVE  TypeOK'
    <2>1. pairs' \in [Linter -> SUBSET Pair] /\ seen' \in [Linter -> SUBSET Claim]
      BY <1>12 DEF TypeOK, Compare
    <2> QED BY <1>12, <2>1 DEF TypeOK, Compare, others, ledgerVars
  <1>13. ASSUME NEW s \in Linter, NEW pr \in pairs[s], NEW first \in Claim, NEW yes \in BOOLEAN,
                Merge(s, pr, first, yes)
         PROVE  TypeOK'
    <2>1. pr \in SUBSET Claim
      BY DEF TypeOK, Pair
    <2>2. named' \subseteq Claim
      BY <1>13, <2>1, PairsNameClaims DEF TypeOK, Merge
    <2>3. \A other \in pr : Duplicate(first, other) \in Item
      BY <2>1 DEF Item, Kind, Reason, Duplicate
    <2>4. raise' \in [Linter -> SUBSET Item] /\ pairs' \in [Linter -> SUBSET Pair]
      BY <1>13, <2>3 DEF TypeOK, Merge
    <2> QED BY <1>13, <2>2, <2>4 DEF TypeOK, Merge, others
  <1>14. ASSUME NEW s \in Linter, Finish(s) \/ Fail(s)
         PROVE  TypeOK'
    <2>1. Forget(s) /\ UNCHANGED <<others, ledgerVars, open>>
      BY <1>14 DEF Finish, Fail
    <2> QED BY <2>1, ForgetTyped DEF TypeOK, others, ledgerVars
  <1>15. CASE UNCHANGED vars
    BY <1>15 DEF TypeOK, vars, lintVars, ledgerVars
  <1> QED BY <1>1, <1>2, <1>3, <1>4, <1>5, <1>6, <1>7, <1>8, <1>9, <1>10, <1>11, <1>12, <1>13,
             <1>14, <1>15 DEF Next, Proceed

\* Every variable keeps its type: among others, a lint that has nothing to write is not
\* between reading a page again and writing it.
THEOREM LintTypeCorrect == Spec => []TypeOK
  BY TypeInit, TypeStep, PTL DEF Spec

-----------------------------------------------------------------------------
(* Claims that were accepted *)

\* A claim nobody writes by hand is in the ledger wherever it turns up: on its page, among
\* those being filed, in what a lint has seen or is about to write.  So a lint, which reads
\* the ledger later, does not call it unbacked.
FiledAreAccepted ==
    /\ \A c \in Claim \ ByHand :
          page[c] # "absent" \/ c \in filing => c \in accepted
    /\ \A s \in Linter : \A c \in Claim \ ByHand :
          c \in seen[s] \/ fresh[s][c] # "absent" => c \in accepted

UnbackedAreByHand ==
    /\ \A s \in Linter : \A i \in raise[s] : i.reason = NoEntry => i.claim \in ByHand
    /\ \A c \in Claim : \A k \in Kind : open[c][k] = NoEntry => c \in ByHand

LedgerInv == TypeOK /\ FiledAreAccepted /\ UnbackedAreByHand

LEMMA LedgerInit == Init => LedgerInv
  <1>1. NoItem # NoEntry
    BY DEF NoItem, NoEntry, None
  <1> QED BY <1>1, TypeInit DEF Init, LedgerInv, FiledAreAccepted, UnbackedAreByHand, NoClaims

LEMMA FiledStep == LedgerInv /\ [Next]_vars => FiledAreAccepted'
  <1> SUFFICES ASSUME LedgerInv, [Next]_vars
               PROVE  FiledAreAccepted'
    OBVIOUS
  <1> USE DEF LedgerInv, FiledAreAccepted
  <1>1. ASSUME NEW c \in Claim, Accept(c) \/ File(c) \/ FileRecord(c) \/ WriteByHand(c) \/ SyncChecks(c)
        PROVE  FiledAreAccepted'
    BY <1>1 DEF TypeOK, Accept, File, FileRecord, WriteByHand, SyncChecks, Put, lintVars, ledgerVars
  <1>2. ASSUME NEW p \in Page, NEW o \in SUBSET Claim, Finalize(p, o)
        PROVE  FiledAreAccepted'
    BY <1>2 DEF Finalize, lintVars
  <1>3. ASSUME NEW c \in Claim, NEW k \in Kind, NEW r \in Resolution, NEW no \in BOOLEAN,
               ReviewApply(c, k, r, no)
        PROVE  FiledAreAccepted'
    <2>1. page[c] = "absent" => Resolved(r, page[c]) = "absent"
      BY ResolvedTyped DEF TypeOK
    <2>2. \A d \in Claim : page'[d] # "absent" => page[d] # "absent"
      BY <1>3, <2>1 DEF TypeOK, ReviewApply, Put
    <2> QED BY <1>3, <2>2 DEF ReviewApply, lintVars, ledgerVars
  <1>4. CASE ReviewResolve
    BY <1>4 DEF ReviewResolve, lintVars, ledgerVars
  <1>5. ASSUME NEW noted \in BOOLEAN, ReviewRecord(noted)
        PROVE  FiledAreAccepted'
    BY <1>5 DEF ReviewRecord, lintVars
  <1>6. ASSUME NEW s \in Linter, NEW autoFix, NEW contradictions, Start(s, autoFix, contradictions)
        PROVE  FiledAreAccepted'
    BY <1>6 DEF TypeOK, Start, Active, others, ledgerVars
  <1>7. ASSUME NEW s \in Linter, NEW p \in marked[s], Reread(s, p)
        PROVE  FiledAreAccepted'
    BY <1>7 DEF TypeOK, Reread, others, ledgerVars
  <1>8. ASSUME NEW s \in Linter, Rewrite(s)
        PROVE  FiledAreAccepted'
    <2>1. \A d \in Claim : page'[d] # "absent" => page[d] # "absent" \/ fresh[s][d] # "absent"
      BY <1>8 DEF Rewrite
    <2>2. \A t \in Linter : \A d \in Claim : fresh'[t][d] # "absent" => fresh[t][d] # "absent"
      BY <1>8 DEF TypeOK, Rewrite, NoClaims
    <2> QED BY <1>8, <2>1, <2>2 DEF Rewrite, ledgerVars
  <1>9. ASSUME NEW s \in Linter,
               \/ \E chosen \in SUBSET Shares : ReadLedger(s, chosen)
               \/ \E item \in raise[s] : Enqueue(s, item)
               \/ \E pr \in pairs[s], yes \in BOOLEAN : Relate(s, pr, yes)
               \/ \E pr \in pairs[s], first \in Claim, yes \in BOOLEAN : Merge(s, pr, first, yes)
        PROVE  FiledAreAccepted'
    <2>1. UNCHANGED <<page, filing, accepted, seen, fresh>>
      BY <1>9 DEF ReadLedger, Enqueue, Relate, Merge, others, ledgerVars
    <2> QED BY <2>1
  <1>10. ASSUME NEW s \in Linter, NEW chosen \in SUBSET Pair, Compare(s, chosen)
         PROVE  FiledAreAccepted'
    BY <1>10 DEF TypeOK, Compare, others, ledgerVars
  <1>11. ASSUME NEW s \in Linter, Finish(s) \/ Fail(s)
         PROVE  FiledAreAccepted'
    BY <1>11, SMTT(40) DEF TypeOK, Finish, Fail, Forget, NoClaims, others, ledgerVars
  <1>12. CASE UNCHANGED vars
    BY <1>12 DEF vars, lintVars, ledgerVars
  <1> QED BY <1>1, <1>2, <1>3, <1>4, <1>5, <1>6, <1>7, <1>8, <1>9, <1>10, <1>11, <1>12
          DEF Next, Proceed

LEMMA UnbackedStep == LedgerInv /\ [Next]_vars => UnbackedAreByHand'
  <1> SUFFICES ASSUME LedgerInv, [Next]_vars
               PROVE  UnbackedAreByHand'
    OBVIOUS
  <1> USE DEF LedgerInv, UnbackedAreByHand
  <1>1. ASSUME UNCHANGED <<raise, open>>
        PROVE  UnbackedAreByHand'
    BY <1>1
  <1>2. CASE ReviewResolve
    <2>1. /\ open' = [open EXCEPT ![review.claim][review.kind] = NoItem] /\ raise' = raise
      BY <1>2 DEF ReviewResolve, lintVars
    <2>2. NoItem # NoEntry
      BY DEF NoItem, NoEntry, None
    <2> QED BY <2>1, <2>2 DEF TypeOK
  <1>3. ASSUME NEW s \in Linter, NEW chosen \in SUBSET Shares, ReadLedger(s, chosen)
        PROVE  UnbackedAreByHand'
    <2>1. \A c \in seen[s] : ~Backed(c) => c \in ByHand
      BY DEF TypeOK, FiledAreAccepted, Backed
    <2>2. \A i \in raise'[s] : i.claim \in seen[s] /\ ~Backed(i.claim)
      BY <1>3 DEF TypeOK, ReadLedger
    <2>3. open' = open /\ \A t \in Linter : t # s => raise'[t] = raise[t]
      BY <1>3 DEF TypeOK, ReadLedger
    <2> QED BY <2>1, <2>2, <2>3
  <1>4. ASSUME NEW s \in Linter, NEW item \in raise[s], Enqueue(s, item)
        PROVE  UnbackedAreByHand'
    <2>1. item.claim \in Claim /\ item.kind \in Kind
      BY DEF TypeOK, Item
    <2>2. \A t \in Linter : raise'[t] \subseteq raise[t]
      BY <1>4 DEF TypeOK, Enqueue
    <2>3. \A c \in Claim : \A k \in Kind :
              \/ open'[c][k] = open[c][k]
              \/ c = item.claim /\ open'[c][k] = item.reason
      BY <1>4, <2>1 DEF TypeOK, Enqueue
    <2> QED BY <2>1, <2>2, <2>3
  <1>5. ASSUME NEW s \in Linter, NEW pr \in pairs[s], NEW yes \in BOOLEAN, Relate(s, pr, yes)
        PROVE  UnbackedAreByHand'
    <2>1. \A i \in raise'[s] : i.reason # NoEntry
      BY <1>5 DEF TypeOK, Relate, Dispute, NoEntry
    <2>2. open' = open /\ \A t \in Linter : t # s => raise'[t] = raise[t]
      BY <1>5 DEF TypeOK, Relate
    <2> QED BY <2>1, <2>2
  <1>6. ASSUME NEW s \in Linter, NEW pr \in pairs[s], NEW first \in Claim, NEW yes \in BOOLEAN,
               Merge(s, pr, first, yes)
        PROVE  UnbackedAreByHand'
    <2>1. \A i \in raise'[s] : i.reason # NoEntry
      BY <1>6 DEF TypeOK, Merge, Duplicate, NoEntry
    <2>2. open' = open /\ \A t \in Linter : t # s => raise'[t] = raise[t]
      BY <1>6 DEF TypeOK, Merge
    <2> QED BY <2>1, <2>2
  <1>7. ASSUME NEW s \in Linter, Finish(s) \/ Fail(s)
        PROVE  UnbackedAreByHand'
    <2>1. Forget(s) /\ open' = open
      BY <1>7 DEF Finish, Fail
    <2>2. \A t \in Linter : raise'[t] \subseteq raise[t]
      BY <2>1 DEF TypeOK, Forget
    <2> QED BY <2>1, <2>2
  <1>8. ASSUME \/ \E c \in Claim : Accept(c) \/ File(c) \/ FileRecord(c) \/ WriteByHand(c) \/ SyncChecks(c)
               \/ \E p \in Page, o \in SUBSET Claim : Finalize(p, o)
               \/ \E c \in Claim, k \in Kind, r \in Resolution, no \in BOOLEAN :
                      ReviewApply(c, k, r, no)
               \/ \E noted \in BOOLEAN : ReviewRecord(noted)
               \/ \E s \in Linter :
                     \/ \E mode \in Modes : Start(s, mode[1], mode[2])
                     \/ \E p \in marked[s] : Reread(s, p)
                     \/ Rewrite(s)
                     \/ \E chosen \in SUBSET Pair : Compare(s, chosen)
               \/ UNCHANGED vars
        PROVE  UNCHANGED <<raise, open>>
    BY <1>8 DEF Accept, File, FileRecord, WriteByHand, SyncChecks, Finalize, ReviewApply,
                ReviewRecord, Start, Reread, Rewrite, Compare, lintVars, vars
  <1> QED BY <1>1, <1>2, <1>3, <1>4, <1>5, <1>6, <1>7, <1>8 DEF Next, Proceed

\* Lint never queues a claim the pipeline accepted for want of a ledger entry: its entry
\* precedes its page, and the pages are read before the ledger (lint.ts:188-236).
THEOREM AcceptedClaimsAreNotQueued == Spec => []FiledClaimsAreNotQueued
  <1>1. LedgerInv => FiledClaimsAreNotQueued
    BY DEF LedgerInv, UnbackedAreByHand, FiledClaimsAreNotQueued, Kind
  <1>2. LedgerInv /\ [Next]_vars => LedgerInv'
    BY TypeStep, FiledStep, UnbackedStep DEF LedgerInv
  <1> QED BY <1>1, <1>2, LedgerInit, PTL DEF Spec

-----------------------------------------------------------------------------
(* Pages that are written back *)

\* Between the two steps of a rewrite, what lint read of the page is what is on it, but for
\* the claims that somebody changed in the meantime.
FreshUnlessLate ==
    \A s \in Linter : step[s] = "write" =>
        \A c \in Claim : PageOf[c] \in writing[s] => fresh[s][c] = page[c] \/ c \in late[s]

RewriteInv == TypeOK /\ FreshUnlessLate

LEMMA RewriteInit == Init => RewriteInv
  BY TypeInit DEF Init, RewriteInv, FreshUnlessLate

\* Whoever changes the pages, the lints between the two steps take notice.
LEMMA NoticedKeepsFresh ==
    ASSUME TypeOK, FreshUnlessLate,
           NEW s \in Linter, step[s] = "write", late'[s] = Noticed(s),
           UNCHANGED <<step[s], writing[s], fresh[s]>>
    PROVE  \A c \in Claim : PageOf[c] \in writing'[s] => fresh'[s][c] = page'[c] \/ c \in late'[s]
  BY DEF FreshUnlessLate, Noticed

LEMMA FreshStep == RewriteInv /\ [Next]_vars => FreshUnlessLate'
  <1> SUFFICES ASSUME RewriteInv, [Next]_vars
               PROVE  FreshUnlessLate'
    OBVIOUS
  <1> USE DEF RewriteInv
  <1>1. ASSUME UNCHANGED <<page, late, step, writing, fresh>>
        PROVE  FreshUnlessLate'
    BY <1>1 DEF FreshUnlessLate
  <1>2. ASSUME late' = [s \in Linter |-> Noticed(s)], UNCHANGED <<step, writing, fresh>>
        PROVE  FreshUnlessLate'
    <2> SUFFICES ASSUME NEW s \in Linter, step'[s] = "write"
                 PROVE  \A c \in Claim : PageOf[c] \in writing'[s]
                            => fresh'[s][c] = page'[c] \/ c \in late'[s]
      BY DEF FreshUnlessLate
    <2>1. step[s] = "write" /\ late'[s] = Noticed(s)
      BY <1>2
    <2> QED BY <1>2, <2>1, NoticedKeepsFresh
  <1>3. ASSUME NEW c \in Claim, File(c) \/ WriteByHand(c)
        PROVE  FreshUnlessLate'
    BY <1>2, <1>3 DEF File, WriteByHand, Put, lintVars
  <1>4. ASSUME NEW c \in Claim, NEW k \in Kind, NEW r \in Resolution, NEW no \in BOOLEAN,
               ReviewApply(c, k, r, no)
        PROVE  FreshUnlessLate'
    <2>1. UNCHANGED <<step, writing, fresh>>
      BY <1>4 DEF ReviewApply, lintVars
    <2>2. CASE no
      BY <1>1, <1>4, <2>1, <2>2 DEF ReviewApply
    <2>3. CASE ~no
      BY <1>2, <1>4, <2>1, <2>3 DEF ReviewApply, Put
    <2> QED BY <2>2, <2>3
  <1>5. ASSUME NEW s \in Linter, NEW p \in marked[s], Reread(s, p)
        PROVE  FreshUnlessLate'
    <2>1. UNCHANGED <<page, late>> /\ \A t \in Linter : t # s =>
              UNCHANGED <<step[t], writing[t], fresh[t]>>
      BY <1>5 DEF TypeOK, Reread, others
    <2>2. writing'[s] = {p} /\ \A c \in Claim : PageOf[c] = p => fresh'[s][c] = page[c]
      BY <1>5 DEF TypeOK, Reread
    <2> QED BY <2>1, <2>2 DEF FreshUnlessLate
  <1>6. ASSUME NEW s \in Linter, Rewrite(s)
        PROVE  FreshUnlessLate'
    <2> SUFFICES ASSUME NEW t \in Linter, step'[t] = "write"
                 PROVE  \A c \in Claim : PageOf[c] \in writing'[t]
                            => fresh'[t][c] = page'[c] \/ c \in late'[t]
      BY DEF FreshUnlessLate
    <2>1. t # s
      BY <1>6 DEF TypeOK, Rewrite
    <2>2. late'[t] = Noticed(t) /\ UNCHANGED <<step[t], writing[t], fresh[t]>>
      BY <1>6, <2>1 DEF TypeOK, Rewrite
    <2>3. step[t] = "write"
      BY <2>2
    <2> QED BY <2>2, <2>3, NoticedKeepsFresh
  <1>7. ASSUME NEW s \in Linter,
               \/ \E autoFix, contradictions : Start(s, autoFix, contradictions)
               \/ \E chosen \in SUBSET Shares : ReadLedger(s, chosen)
               \/ \E chosen \in SUBSET Pair : Compare(s, chosen)
        PROVE  FreshUnlessLate'
    <2>1. UNCHANGED <<page, late, writing, fresh>> /\ step'[s] # "write"
          /\ \A t \in Linter : t # s => step'[t] = step[t]
      BY <1>7 DEF TypeOK, Start, ReadLedger, Compare, others
    <2> QED BY <2>1 DEF FreshUnlessLate
  <1>8. ASSUME NEW s \in Linter, Finish(s) \/ Fail(s)
        PROVE  FreshUnlessLate'
    <2>1. UNCHANGED page /\ step'[s] # "write"
          /\ \A t \in Linter : t # s => UNCHANGED <<step[t], writing[t], fresh[t], late[t]>>
      BY <1>8 DEF TypeOK, Finish, Fail, Forget, others
    <2> QED BY <2>1 DEF FreshUnlessLate
  <1>9. ASSUME \/ \E c \in Claim : Accept(c) \/ FileRecord(c) \/ SyncChecks(c)
               \/ \E p \in Page, o \in SUBSET Claim : Finalize(p, o)
               \/ ReviewResolve \/ \E noted \in BOOLEAN : ReviewRecord(noted)
               \/ \E s \in Linter :
                     \/ \E item \in raise[s] : Enqueue(s, item)
                     \/ \E pr \in pairs[s], yes \in BOOLEAN : Relate(s, pr, yes)
                     \/ \E pr \in pairs[s], first \in Claim, yes \in BOOLEAN :
                            Merge(s, pr, first, yes)
               \/ UNCHANGED vars
        PROVE  UNCHANGED <<page, late, step, writing, fresh>>
    BY <1>9, ZenonT(60) DEF Accept, FileRecord, SyncChecks, Finalize, ReviewResolve, ReviewRecord, Enqueue,
                Relate, Merge, others, lintVars, vars
  <1> QED BY <1>1, <1>3, <1>4, <1>5, <1>6, <1>7, <1>8, <1>9 DEF Next, Proceed

\* Only Rewrite takes a lint from "write" to "relate".
LEMMA OnlyRewriteWrites ==
    ASSUME TypeOK, [Next]_vars,
           NEW s \in Linter, step[s] = "write", step'[s] = "relate"
    PROVE  Rewrite(s)
  <1>1. CASE UNCHANGED step
    BY <1>1
  <1>2. ASSUME NEW t \in Linter,
               \/ \E mode \in Modes : Start(t, mode[1], mode[2])
               \/ \E p \in marked[t] : Reread(t, p)
               \/ \E chosen \in SUBSET Shares : ReadLedger(t, chosen)
               \/ \E chosen \in SUBSET Pair : Compare(t, chosen)
        PROVE  FALSE
    BY <1>2, ZenonT(60) DEF TypeOK, Start, Reread, ReadLedger, Compare
  <1>3. ASSUME NEW t \in Linter, Finish(t) \/ Fail(t)
        PROVE  FALSE
    BY <1>3, ZenonT(60) DEF TypeOK, Finish, Fail, Forget
  <1>4. ASSUME NEW t \in Linter, Rewrite(t)
        PROVE  t = s
    BY <1>4 DEF TypeOK, Rewrite
  <1>5. ASSUME \/ \E c \in Claim : Accept(c) \/ File(c) \/ FileRecord(c) \/ WriteByHand(c) \/ SyncChecks(c)
               \/ \E p \in Page, o \in SUBSET Claim : Finalize(p, o)
               \/ \E c \in Claim, k \in Kind, r \in Resolution, no \in BOOLEAN :
                      ReviewApply(c, k, r, no)
               \/ ReviewResolve \/ \E noted \in BOOLEAN : ReviewRecord(noted)
               \/ \E t \in Linter :
                     \/ \E item \in raise[t] : Enqueue(t, item)
                     \/ \E pr \in pairs[t], yes \in BOOLEAN : Relate(t, pr, yes)
                     \/ \E pr \in pairs[t], first \in Claim, yes \in BOOLEAN :
                            Merge(t, pr, first, yes)
               \/ UNCHANGED vars
        PROVE  UNCHANGED step
    BY <1>5, ZenonT(60) DEF Accept, File, FileRecord, WriteByHand, SyncChecks, Finalize, ReviewApply,
                ReviewResolve, ReviewRecord, Enqueue, Relate, Merge, lintVars, vars
  <1> QED BY <1>1, <1>2, <1>3, <1>4, <1>5 DEF Next, Proceed

\* When lint writes a page back (lint.ts:331-335), a claim it changes is one that somebody,
\* or another lint, changed after lint read the page again.
THEOREM LateEditsAreAllThatIsLost == Spec => RewritesLoseOnlyLateEdits
  <1> DEFINE Step == \A s \in Linter : step[s] = "write" /\ step'[s] = "relate"
                         => \A c \in Claim : page'[c] = page[c] \/ c \in late[s]
  <1>1. RewriteInv /\ [Next]_vars => RewriteInv'
    BY TypeStep, FreshStep DEF RewriteInv
  <1>2. RewriteInv /\ [Next]_vars => Step
    <2> SUFFICES ASSUME RewriteInv, [Next]_vars,
                        NEW s \in Linter, step[s] = "write", step'[s] = "relate",
                        NEW c \in Claim
                 PROVE  page'[c] = page[c] \/ c \in late[s]
      OBVIOUS
    <2>1. Rewrite(s)
      BY OnlyRewriteWrites DEF RewriteInv
    <2> QED BY <2>1 DEF RewriteInv, FreshUnlessLate, Rewrite
  <1>3. RewriteInv /\ [Next]_vars => [Step]_vars
    BY <1>2
  <1> HIDE DEF Step
  <1>4. Init /\ [][Next]_vars => [][Step]_vars
    BY <1>1, <1>3, RewriteInit, PTL
  <1>5. RewritesLoseOnlyLateEdits <=> [][Step]_vars
    BY DEF RewritesLoseOnlyLateEdits, Step
  <1> QED BY <1>4, <1>5, PTL DEF Spec
=============================================================================
