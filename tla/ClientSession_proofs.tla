------------------------ MODULE ClientSession_proofs ------------------------
(***************************************************************************)
(* What the page shows of its user and of the market, for every number of  *)
(* users, submissions, requests and reloads.  The invariant has two parts: *)
(* one of the accounts, the submissions and the two copies of the session, *)
(* and one of each resource and its requests.                              *)
(***************************************************************************)
EXTENDS ClientSession, TLAPS

-----------------------------------------------------------------------------
(***************************************************************************)
(* The assessment (RiskScoring): it is monotone and within means for all   *)
(* answers.                                                                *)
(***************************************************************************)

AnswerSheets == [Dimensions -> Scores]

\* dimensionLevelFromScore gives one of five levels and never turns back.
LEMMA LevelGrows ==
  \A m, n \in Int : Level(m) \in 1..5 /\ (m <= n => Level(m) <= Level(n))
BY DEF Level, Low, MediumLow, Medium, MediumHigh, High

\* baseProfileFromScore gives one of five profiles and never turns back.
LEMMA BaseGrows ==
  \A m, n \in Int : Base(m) \in 1..5 /\ (m <= n => Base(m) <= Base(n))
BY DEF Base, Conservative, Stable, Balanced, Growth, Aggressive

\* Every score of an answered questionnaire is a number.
LEMMA AnswersAreNumbers ==
  ASSUME NEW a \in AnswerSheets
  PROVE  /\ \A d \in Dimensions : a[d] \in Int
         /\ Total(a) \in Int
BY DEF AnswerSheets, Scores, Dimensions, Total

\* A bolder set of answers has a total, levels and growth signals at least as high.
LEMMA PartsGrow ==
  ASSUME NEW a \in AnswerSheets, NEW b \in AnswerSheets, \A d \in Dimensions : a[d] <= b[d]
  PROVE  /\ Total(a) <= Total(b)
         /\ \A d \in Dimensions : Level(a[d]) <= Level(b[d])
         /\ Signals(a) \in 0..3 /\ Signals(b) \in 0..3 /\ Signals(a) <= Signals(b)
<1>0. \A d \in Dimensions : a[d] \in Int /\ b[d] \in Int /\ a[d] <= b[d]
  BY AnswersAreNumbers
<1>1. Total(a) <= Total(b)
  BY <1>0 DEF Dimensions, Total
<1>2. \A d \in Dimensions : Level(a[d]) \in 1..5 /\ Level(b[d]) \in 1..5 /\ Level(a[d]) <= Level(b[d])
  BY <1>0, LevelGrows
<1>3. ASSUME NEW d \in Dimensions
      PROVE  /\ Signal(a, d) \in 0..1 /\ Signal(b, d) \in 0..1
             /\ Signal(a, d) <= Signal(b, d)
  <2> DEFINE la == Level(a[d])  lb == Level(b[d])
  <2>1. la \in 1..5 /\ lb \in 1..5 /\ la <= lb
    BY <1>2
  <2> HIDE DEF la, lb
  <2>2. QED
    BY <2>1 DEF Signal, MediumHigh, la, lb
<1>4. ASSUME NEW d \in {"investmentHorizon", "investmentExperience", "returnObjective"}
      PROVE  /\ Signal(a, d) \in 0..1 /\ Signal(b, d) \in 0..1
             /\ Signal(a, d) <= Signal(b, d)
  BY <1>3 DEF Dimensions
<1>5. Signals(a) \in 0..3 /\ Signals(b) \in 0..3 /\ Signals(a) <= Signals(b)
  BY <1>4 DEF Signals
<1>6. QED
  BY <1>1, <1>2, <1>5

\* Final is one of the five profiles, within means.
LEMMA FinalIsProfile ==
  ASSUME NEW a \in AnswerSheets
  PROVE  Final(a) \in 1..5 /\ NeverBeyondMeans(a)
<1> DEFINE base == Base(Total(a))
<1>1. base \in 1..5
  BY BaseGrows, AnswersAreNumbers
<1>2. base = Growth \/ base = Aggressive \/ base <= Balanced
  BY <1>1 DEF Growth, Aggressive, Balanced
<1> HIDE DEF base
<1>3. CASE Capped(a) /\ base >= Growth
  BY <1>1, <1>3 DEF Final, NeverBeyondMeans, base, Growth, Balanced
<1>4. CASE ~(Capped(a) /\ base >= Growth)
  <2>1. Final(a) \in {base, Lower(base), Higher(base)}
    BY <1>4 DEF Final, base
  <2>2. Capped(a) => base <= Balanced /\ Final(a) \in {base, Lower(base)}
    BY <1>1, <1>4 DEF Final, base, Growth, Balanced
  <2>3. Lower(base) \in 1..5 /\ Lower(base) <= base
    BY <1>1 DEF Lower, Conservative
  <2>4. Higher(base) \in 1..5 /\ Higher(base) <= base + 1
    BY <1>1 DEF Higher, Aggressive
  <2>5. QED
    BY <1>1, <2>1, <2>2, <2>3, <2>4 DEF NeverBeyondMeans, base, Balanced
<1>5. QED
  BY <1>3, <1>4

\* A bolder answer never makes the profile more cautious, for all answers: the caps
\* and the lowering give way as the levels rise, and the bonus near the top of a band
\* gives what the next band gives.
THEOREM BolderIsBolder ==
  ASSUME NEW a \in AnswerSheets, NEW b \in AnswerSheets
  PROVE  BolderNeverBackfires(a, b)
<1> SUFFICES ASSUME \A d \in Dimensions : a[d] <= b[d]
             PROVE  Final(a) <= Final(b)
  BY DEF BolderNeverBackfires
<1> DEFINE ta == Total(a)  tb == Total(b)
           ra == Level(a["riskTolerance"])     rb == Level(b["riskTolerance"])
           ca == Level(a["capitalStability"])  cb == Level(b["capitalStability"])
           sa == Signals(a)  sb == Signals(b)
<1>1. ta \in Int /\ tb \in Int /\ ta <= tb /\ sa \in 0..3 /\ sb \in 0..3 /\ sa <= sb
  BY AnswersAreNumbers, PartsGrow
<1>2. /\ ra \in 1..5 /\ rb \in 1..5 /\ ra <= rb
      /\ ca \in 1..5 /\ cb \in 1..5 /\ ca <= cb
  BY AnswersAreNumbers, PartsGrow, LevelGrows DEF Dimensions
<1>3. /\ Capped(a) <=> ra = 1 \/ ca = 1
      /\ Capped(b) <=> rb = 1 \/ cb = 1
      /\ Unstable(a) <=> ca <= 2
      /\ Unstable(b) <=> cb <= 2
  BY DEF Capped, Unstable, Low, MediumLow
<1> HIDE DEF ta, tb, ra, rb, ca, cb, sa, sb
<1>4. QED
  BY <1>1, <1>2, <1>3
  DEF Final, ta, tb, ra, rb, ca, cb, sa, sb, Base, NearTop, Lower, Higher,
      Conservative, Stable, Balanced, Growth, Aggressive, MediumLow

\* The property of the run, and the same for all scores.
THEOREM AssessmentAlwaysSound ==
  /\ AssessmentIsSound
  /\ \A a \in AnswerSheets : NeverBeyondMeans(a)
<1>1. \A a \in [Dimensions -> Sides] : a \in AnswerSheets
  BY DEF AnswerSheets, Sides, Scores
<1>2. ASSUME NEW a \in [Dimensions -> Sides], NEW d \in Dimensions, NEW n \in {1, 3}, a[d] + n <= 20
      PROVE  [a EXCEPT ![d] = @ + n] \in AnswerSheets
  BY <1>2 DEF AnswerSheets, Sides, Scores
<1>3. QED
  BY <1>1, <1>2, FinalIsProfile, BolderIsBolder DEF AssessmentIsSound

-----------------------------------------------------------------------------
(***************************************************************************)
(* The session: accounts, submissions and resources.                       *)
(***************************************************************************)

\* A submission has an account once it is granted, one of the table.
Submitted(n) ==
  /\ submit[n].account \in accounts \union {None}
  /\ submit[n].at \in {"none", "sent", "checked", "refused"} => submit[n].account = None
  /\ submit[n].at = "granted" => submit[n].account # None

\* The stored session and token belong together until a write fails.
Paired ==
  ~failed /\ storage.token # 0 =>
    /\ submit[storage.token].account = storage.session
    /\ storage.session # None
    /\ page.session \in {None, storage.session}

Unique == \A a, b \in accounts : a.email = b.email => a = b

UserType ==
  /\ accounts \subseteq Accounts
  /\ submit \in [Submits -> Submission]
  /\ expired \subseteq Submits
  /\ page \in [session: Accounts \union {None}, waits: 0..MaxSubmits, refreshed: Emails \union {None}]
  /\ storage \in [session: Accounts \union {None}, token: 0..MaxSubmits]
  /\ failed \in BOOLEAN

UserInv ==
  /\ UserType
  /\ Unique
  /\ page.session \in accounts \union {None}
  /\ storage.session \in accounts \union {None}
  /\ \A n \in Submits : Submitted(n)
  /\ Paired

PageType == [session: Accounts \union {None}, waits: 0..MaxSubmits, refreshed: Emails \union {None}]

LEMMA UserInit == Init => UserInv
<1> SUFFICES ASSUME Init PROVE UserInv
  OBVIOUS
<1>1. PICK e \in Emails : submit = [n \in Submits |->
        [mode |-> "login", email |-> e, account |-> None, at |-> "none", heard |-> FALSE]]
  BY DEF Init
<1>2. submit \in [Submits -> Submission] /\ \A n \in Submits : Submitted(n)
  BY <1>1 DEF Submission, Submitted
<1>3. page \in PageType /\ storage \in [session: Accounts \union {None}, token: 0..MaxSubmits]
  BY SessionAssumption DEF Init, PageType
<1>4. QED
  BY <1>2, <1>3 DEF Init, UserInv, UserType, PageType, Unique, Paired

\* A step that leaves the session of the page and the storage alone, and takes no
\* account from a submission, keeps the invariant if it keeps types and submissions.
LEMMA UserKept ==
  ASSUME UserInv, UNCHANGED <<storage, failed>>, page'.session = page.session, page' \in PageType,
         accounts \subseteq accounts', accounts' \subseteq Accounts, Unique',
         expired' \subseteq Submits, submit' \in [Submits -> Submission],
         \A n \in Submits : Submitted(n)',
         \A n \in Submits : submit[n].account # None => submit'[n].account = submit[n].account
  PROVE  UserInv'
<1>1. Paired'
  <2> SUFFICES ASSUME ~failed, storage.token # 0
               PROVE  /\ submit'[storage.token].account = storage.session
                      /\ storage.session # None
                      /\ page.session \in {None, storage.session}
    BY DEF Paired
  <2>1. storage.token \in Submits
    BY SessionAssumption DEF UserInv, UserType, Submits
  <2>2. QED
    BY <2>1 DEF UserInv, Paired
<1>2. UserType'
  BY DEF UserInv, UserType, PageType
<1>3. QED
  BY <1>1, <1>2 DEF UserInv

\* The same for a step that changes one submission and not the table.
LEMMA OneSubmission ==
  ASSUME UserInv, NEW n \in Submits, NEW new \in Submission,
         submit' = [submit EXCEPT ![n] = new],
         UNCHANGED <<accounts, expired, storage, failed>>,
         page' \in PageType, page'.session = page.session,
         new.account \in accounts \union {None},
         new.at \in {"none", "sent", "checked", "refused"} => new.account = None,
         new.at = "granted" => new.account # None,
         submit[n].account # None => new.account = submit[n].account
  PROVE  UserInv'
<1>1. submit' \in [Submits -> Submission]
  BY DEF UserInv, UserType
<1>2. \A k \in Submits : submit'[k] = IF k = n THEN new ELSE submit[k]
  BY DEF UserInv, UserType
<1>3. \A k \in Submits : Submitted(k)'
  BY <1>2 DEF UserInv, Submitted
<1>4. \A k \in Submits : submit[k].account # None => submit'[k].account = submit[k].account
  BY <1>2
<1>5. Unique' /\ accounts' \subseteq Accounts /\ accounts \subseteq accounts' /\ expired' \subseteq Submits
  BY DEF UserInv, UserType, Unique
<1>6. QED
  BY <1>1, <1>3, <1>4, <1>5, UserKept

\* A step of the market data takes away a token, or fails to write, at most.
LEMMA MarketKeepsUser ==
  ASSUME UserInv, UNCHANGED <<accounts, submit, expired>>,
         page' \in PageType, page'.session = page.session,
         storage' \in {storage, [storage EXCEPT !.token = 0]},
         failed' \in BOOLEAN, failed => failed'
  PROVE  UserInv'
<1>1. storage' \in [session: Accounts \union {None}, token: 0..MaxSubmits]
      /\ storage'.session = storage.session
      /\ storage'.token \in {storage.token, 0}
  BY SessionAssumption DEF UserInv, UserType
<1>2. UserType'
  BY <1>1 DEF UserInv, UserType, PageType
<1>3. Paired'
  BY <1>1 DEF UserInv, Paired
<1>4. QED
  BY <1>1, <1>2, <1>3 DEF UserInv, Submitted, Unique

LEMMA SubmitKeeps ==
  ASSUME UserInv, NEW n \in Submits, NEW mode \in {"login", "register"}, NEW email \in Emails,
         Submit(n, mode, email)
  PROVE  UserInv'
<1> DEFINE new == [mode |-> mode, email |-> email, account |-> None, at |-> "sent", heard |-> TRUE]
<1>1. submit[n].account = None
  BY DEF UserInv, Submitted, Submit
<1>2. new \in Submission
  BY DEF Submission
<1>3. page' \in PageType /\ page'.session = page.session
  BY SessionAssumption DEF Submit, UserInv, UserType, PageType, Submits
<1>4. QED
  BY <1>1, <1>2, <1>3, OneSubmission DEF Submit

LEMMA RevisitKeeps == ASSUME UserInv, Revisit PROVE UserInv'
<1>1. page' \in PageType /\ page'.session = page.session
  BY SessionAssumption DEF Revisit, UserInv, UserType, PageType
<1>2. QED
  BY <1>1, MarketKeepsUser DEF Revisit, server, UserInv, UserType

\* An endpoint refuses, or goes on, without an account.
LEMMA MovesOn ==
  ASSUME UserInv, NEW n \in Submits, submit[n].at \in {"sent", "checked"},
         NEW at \in {"checked", "refused"}, submit' = [submit EXCEPT ![n].at = at],
         UNCHANGED <<accounts, expired, page, storage, failed>>
  PROVE  UserInv'
<1> DEFINE new == [submit[n] EXCEPT !.at = at]
<1>1. submit[n] \in Submission /\ submit[n].account = None
  BY DEF UserInv, UserType, Submitted
<1>2. new \in Submission /\ new.account = None /\ new.at = at
  BY <1>1 DEF Submission
<1>3. page' \in PageType /\ submit' = [submit EXCEPT ![n] = new]
  BY DEF UserInv, UserType, PageType
<1>4. QED
  BY <1>1, <1>2, <1>3, OneSubmission

LEMMA ServeLoginKeeps == ASSUME UserInv, NEW n \in Submits, ServeLogin(n) PROVE UserInv'
<1>1. CASE Refuse(n)
  BY <1>1, MovesOn DEF ServeLogin, Refuse
<1>2. CASE \E a \in accounts : Grant(n, a)
  <2>1. PICK a \in accounts : Grant(n, a)
    BY <1>2
  <2> DEFINE new == [submit[n] EXCEPT !.at = "granted", !.account = a]
  <2>2. submit[n] \in Submission /\ submit[n].account = None /\ a \in Accounts /\ a # None
    BY SessionAssumption DEF UserInv, UserType, Submitted, ServeLogin
  <2>3. new \in Submission /\ new.account = a /\ new.at = "granted"
    BY <2>2 DEF Submission
  <2>4. page' \in PageType /\ submit' = [submit EXCEPT ![n] = new]
    BY <2>1 DEF UserInv, UserType, PageType, Grant, ServeLogin
  <2>5. QED
    BY <2>2, <2>3, <2>4, OneSubmission DEF ServeLogin
<1>3. QED
  BY <1>1, <1>2 DEF ServeLogin

LEMMA ServeLookupKeeps == ASSUME UserInv, NEW n \in Submits, ServeLookup(n) PROVE UserInv'
BY MovesOn DEF ServeLookup, Refuse

\* The second of two registrations of an email is refused.
LEMMA ServeCommitKeeps == ASSUME UserInv, NEW n \in Submits, ServeCommit(n) PROVE UserInv'
<1>1. CASE Refuse(n) /\ UNCHANGED accounts
  BY <1>1, MovesOn DEF ServeCommit, Refuse
<1>2. CASE ~Refuse(n) \/ accounts' # accounts
  <2> DEFINE a == [id |-> n, email |-> submit[n].email]
             new == [submit[n] EXCEPT !.at = "granted", !.account = a]
  <2>1. /\ \A b \in accounts : b.email # a.email
        /\ accounts' = accounts \union {a}
        /\ Grant(n, a)
    BY <1>2 DEF ServeCommit, Inserted
  <2>2. submit[n] \in Submission /\ submit[n].account = None /\ a \in Accounts /\ a # None
    BY SessionAssumption DEF UserInv, UserType, Submitted, Submission, ServeCommit, Accounts
  <2>3. new \in Submission /\ new.account = a /\ new.at = "granted"
    BY <2>2 DEF Submission
  <2>4. submit' = [submit EXCEPT ![n] = new]
    BY <2>1 DEF UserInv, UserType, Grant
  <2> HIDE DEF new, a
  <2>5. \A k \in Submits : submit'[k] = IF k = n THEN new ELSE submit[k]
    BY <2>4 DEF UserInv, UserType
  <2>6. submit' \in [Submits -> Submission]
    BY <2>3, <2>4 DEF UserInv, UserType
  <2>7. \A k \in Submits : Submitted(k)'
    BY <2>1, <2>2, <2>3, <2>5 DEF UserInv, Submitted
  <2>8. Unique' /\ accounts' \subseteq Accounts /\ accounts \subseteq accounts'
    BY <2>1, <2>2 DEF UserInv, UserType, Unique
  <2>9. /\ UNCHANGED <<storage, failed, page, expired>> /\ page' \in PageType /\ expired' \subseteq Submits
        /\ \A k \in Submits : submit[k].account # None => submit'[k].account = submit[k].account
    BY <2>2, <2>5 DEF ServeCommit, UserInv, UserType, PageType
  <2>10. QED
    BY <2>6, <2>7, <2>8, <2>9, UserKept
<1>3. QED
  BY <1>1, <1>2

\* Both writes bring the new session, or a write has failed from now on.
LEMMA SignInKeeps == ASSUME UserInv, NEW n \in Submits, SignIn(n) PROVE UserInv'
<1> DEFINE a == submit[n].account
           new == [submit[n] EXCEPT !.at = "over"]
<1>1. submit[n] \in Submission /\ a \in accounts /\ a # None /\ a \in Accounts
  BY SessionAssumption DEF UserInv, UserType, Submitted, SignIn
<1>2. new \in Submission /\ new.account = a /\ new.at = "over"
  BY <1>1 DEF Submission
<1>3. submit' = [submit EXCEPT ![n] = new]
  BY DEF SignIn, UserInv, UserType
<1>4. PICK tokenOk \in BOOLEAN, sessionOk \in BOOLEAN :
        /\ Written(tokenOk /\ sessionOk)
        /\ storage' = [token   |-> IF tokenOk THEN n ELSE storage.token,
                       session |-> IF sessionOk THEN submit[n].account ELSE storage.session]
  BY DEF SignIn
<1>5. page' = [page EXCEPT !.session = a, !.waits = IF @ = n THEN 0 ELSE @]
      /\ UNCHANGED <<accounts, expired>>
  BY DEF SignIn
<1> HIDE DEF a, new
<1>6. storage' \in [session: Accounts \union {None}, token: 0..MaxSubmits]
      /\ storage'.session \in accounts' \union {None}
  BY <1>1, <1>4, <1>5, SessionAssumption DEF UserInv, UserType, Submits, a
<1>7. page' \in PageType /\ page'.session = a
  <2>1. page' = [session |-> a, waits |-> IF page.waits = n THEN 0 ELSE page.waits,
                 refreshed |-> page.refreshed]
    BY <1>5 DEF UserInv, UserType
  <2>2. QED
    BY <1>1, <2>1, SessionAssumption DEF UserInv, UserType, PageType
<1>8. failed' \in BOOLEAN /\ (~failed' => tokenOk /\ sessionOk)
  BY <1>4 DEF Written, UserInv, UserType
<1>9. \A k \in Submits : submit'[k] = IF k = n THEN new ELSE submit[k]
  BY <1>3 DEF UserInv, UserType
<1>10. \A k \in Submits : Submitted(k)'
  BY <1>1, <1>2, <1>5, <1>9 DEF UserInv, Submitted, a
<1>11. submit' \in [Submits -> Submission]
  BY <1>2, <1>3 DEF UserInv, UserType
<1>12. Paired'
  BY <1>1, <1>2, <1>4, <1>7, <1>8, <1>9 DEF Paired, a
<1>13. QED
  BY <1>1, <1>5, <1>6, <1>7, <1>8, <1>10, <1>11, <1>12 DEF UserInv, UserType, Unique, PageType

LEMMA SubmitFailsKeeps == ASSUME UserInv, NEW n \in Submits, SubmitFails(n) PROVE UserInv'
<1> DEFINE new == Unheard(submit[n])
<1>1. submit[n] \in Submission
  BY DEF UserInv, UserType
<1>2. new \in Submission /\ new.account = submit[n].account
      /\ new.at \in {submit[n].at, "over"} /\ new.at # "granted"
  BY <1>1 DEF Submission, Unheard
<1>3. submit' = [submit EXCEPT ![n] = new]
  BY DEF SubmitFails, UserInv, UserType
<1>4. page' \in PageType /\ page'.session = page.session
  BY SessionAssumption DEF SubmitFails, UserInv, UserType, PageType
<1> HIDE DEF new
<1>5. QED
  BY <1>2, <1>3, <1>4, OneSubmission DEF SubmitFails, UserInv, Submitted

LEMMA ExpireKeeps == ASSUME UserInv, NEW n \in Submits, Expire(n) PROVE UserInv'
<1>1. page' \in PageType /\ page'.session = page.session /\ expired' \subseteq Submits
  BY DEF Expire, UserInv, UserType, PageType
<1>2. UNCHANGED <<accounts, submit, storage, failed>>
  BY DEF Expire
<1>3. Unique' /\ \A k \in Submits : Submitted(k)'
  BY <1>2 DEF UserInv, Unique, Submitted
<1>4. accounts' \subseteq Accounts /\ submit' \in [Submits -> Submission] /\ accounts \subseteq accounts'
  BY <1>2 DEF UserInv, UserType
<1>5. QED
  BY <1>1, <1>2, <1>3, <1>4, UserKept

LEMMA SignOutKeeps == ASSUME UserInv, SignOut PROVE UserInv'
<1>1. page' = [session |-> None, waits |-> page.waits, refreshed |-> None]
  BY DEF SignOut, UserInv, UserType
<1>2. storage' = [session |-> None, token |-> 0] /\ UNCHANGED <<accounts, submit, expired, failed>>
  BY DEF SignOut, server
<1>3. UserType'
  BY <1>1, <1>2, SessionAssumption DEF UserInv, UserType
<1>4. QED
  BY <1>1, <1>2, <1>3 DEF UserInv, Unique, Submitted, Paired

LEMMA RefreshKeeps == ASSUME UserInv, Refresh PROVE UserInv'
<1>1. page' = [session |-> page.session, waits |-> page.waits, refreshed |-> page.session.email]
  BY DEF Refresh, UserInv, UserType
<1>2. page.session \in Accounts
  BY DEF Refresh, UserInv, UserType
<1>3. page' \in PageType /\ page'.session = page.session
  BY <1>1, <1>2 DEF UserInv, UserType, PageType, Accounts
<1>4. QED
  BY <1>3, MarketKeepsUser DEF Refresh, server, UserInv, UserType

LEMMA AnswerKeeps ==
  ASSUME UserInv, NEW r \in Resources, NEW n \in Requests, Serve(r, n) \/ Receives(r, n)
  PROVE  UserInv'
<1>1. /\ UNCHANGED <<accounts, submit, expired, page>>
      /\ storage' \in {storage, [storage EXCEPT !.token = 0]}
      /\ failed' \in BOOLEAN /\ (failed => failed')
  BY DEF Serve, Receives, ReceiveOld, ReceiveOk, ReceiveBad, Cleared, Stored, Written, server,
         UserInv, UserType
<1>2. QED
  BY <1>1, MarketKeepsUser DEF UserInv, UserType, PageType

\* A loaded page shows what is stored, or nobody; what was under way is not heard.
LEMMA ReloadKeeps == ASSUME UserInv, Reload PROVE UserInv'
<1>1. /\ page' \in PageType /\ page'.session \in {None, storage'.session}
      /\ storage' \in {storage, [session |-> None, token |-> 0]}
      /\ UNCHANGED <<accounts, expired, failed>>
  BY SessionAssumption DEF Reload, UserInv, UserType, PageType
<1>2. submit' = [n \in Submits |-> Unheard(submit[n])]
  BY DEF Reload
<1>3. ASSUME NEW n \in Submits
      PROVE  /\ submit'[n] \in Submission /\ submit'[n].account = submit[n].account
             /\ submit'[n].at \in {submit[n].at, "over"} /\ submit'[n].at # "granted"
  <2>1. submit[n] \in Submission
    BY DEF UserInv, UserType
  <2>2. QED
    BY <1>2, <2>1 DEF Submission, Unheard
<1>4. submit' \in [Submits -> Submission]
  BY <1>2, <1>3
<1>5. \A n \in Submits : Submitted(n)'
  BY <1>1, <1>3 DEF UserInv, Submitted
<1>6. UserType'
  BY <1>1, <1>4, SessionAssumption DEF UserInv, UserType, PageType
<1>7. Paired'
  <2>1. CASE storage' = storage
    <3> SUFFICES ASSUME ~failed, storage.token # 0
                 PROVE  /\ submit'[storage.token].account = storage.session
                        /\ storage.session # None
                        /\ page'.session \in {None, storage.session}
      BY <1>1, <2>1 DEF Paired
    <3>1. storage.token \in Submits
      BY SessionAssumption DEF UserInv, UserType, Submits
    <3>2. QED
      BY <1>1, <1>3, <2>1, <3>1 DEF UserInv, Paired
  <2>2. CASE storage' # storage
    BY <1>1, <2>2 DEF Paired
  <2>3. QED
    BY <2>1, <2>2
<1>8. QED
  BY <1>1, <1>5, <1>6, <1>7 DEF UserInv, Unique

LEMMA UserStep == UserInv /\ [Next]_vars => UserInv'
<1> SUFFICES ASSUME UserInv, [Next]_vars PROVE UserInv'
  OBVIOUS
<1>1. CASE \E n \in Submits, mode \in {"login", "register"}, email \in Emails : Submit(n, mode, email)
  BY <1>1, SubmitKeeps
<1>2. CASE \E n \in Submits : Answers(n)
  BY <1>2, ServeLoginKeeps, ServeLookupKeeps, ServeCommitKeeps, SignInKeeps, SubmitFailsKeeps
     DEF Answers
<1>3. CASE \E n \in Submits : Expire(n)
  BY <1>3, ExpireKeeps
<1>4. CASE Revisit \/ SignOut \/ Refresh \/ Reload
  BY <1>4, RevisitKeeps, SignOutKeeps, RefreshKeeps, ReloadKeeps
<1>5. CASE \E r \in Resources, n \in Requests : Serve(r, n) \/ Receives(r, n)
  BY <1>5, AnswerKeeps
<1>6. CASE (\E r \in Resources : Age(r)) \/ UNCHANGED vars
  <2>1. UNCHANGED <<accounts, submit, expired, page, storage, failed>>
    BY <1>6 DEF Age, vars, server
  <2>2. QED
    BY <2>1 DEF UserInv, UserType, Unique, Submitted, Paired
<1>7. QED
  BY <1>1, <1>2, <1>3, <1>4, <1>5, <1>6 DEF Next

\* Whoever the page shows is the one account of that email, and the token that is kept
\* is of that account, for any number of users, forms, requests and reloads.
THEOREM SessionCorrect == Spec => []SessionIsOfAccount
<1>1. UserInv => SessionIsOfAccount
  <2> SUFFICES ASSUME UserInv PROVE SessionIsOfAccount
    OBVIOUS
  <2>1. {page.session, storage.session} \subseteq accounts \union {None}
    BY DEF UserInv
  <2>2. Unique /\ Paired
    BY DEF UserInv
  <2>3. QED
    BY <2>1, <2>2 DEF SessionIsOfAccount, Unique, Paired
<1>2. QED
  BY <1>1, UserInit, UserStep, PTL DEF Spec

\* The questionnaire is scored soundly, whatever has happened to the page before.
THEOREM AssessmentsCorrect == Spec => []AssessmentsAreSound
<1>1. AssessmentsAreSound
  BY AssessmentAlwaysSound DEF AssessmentsAreSound
<1>2. QED
  BY <1>1, PTL

-----------------------------------------------------------------------------
\* What a resource shows, its latest request and what is stored of it belong together.
InStep(r) ==
  /\ data[r].refresh = "refreshing" <=> InFlight(r, version[r])
  /\ data[r].load = "ready" <=> data[r].of # 0
  /\ data[r].load = "loading" => data[r].refresh = "refreshing"
  /\ \A n \in Requests : n > version[r] => request[r][n].at = "none"
  /\ data[r].of <= version[r] /\ saved[r].of <= version[r]
  /\ saved[r].usable => /\ saved[r].of # 0
                        /\ failed \/ saved[r].of = data[r].of

MarketType ==
  /\ data \in [Resources -> Resource]
  /\ version \in [Resources -> 0..MaxRequests]
  /\ saved \in [Resources -> Envelope]
  /\ request \in [Resources -> [Requests -> Request]]
  /\ reloads \in Nat

MarketInv == MarketType /\ \A r \in Resources : InStep(r)

LEMMA MarketInit == Init => MarketInv
<1> SUFFICES ASSUME Init PROVE MarketInv
  OBVIOUS
<1>1. MarketType
  BY SessionAssumption DEF Init, MarketType, Resource, Empty, Envelope, Request, Requests
<1>2. ASSUME NEW r \in Resources PROVE InStep(r)
  BY SessionAssumption DEF Init, InStep, Empty, InFlight, Requests
<1>3. QED
  BY <1>1, <1>2 DEF MarketInv

LEMMA RefreshInStep == ASSUME UserInv, MarketInv, Refresh PROVE MarketInv'
<1>1. ASSUME NEW r \in Resources
      PROVE  /\ version[r] + 1 \in Requests /\ version'[r] = version[r] + 1
             /\ version'[r] \in 0..MaxRequests
  <2>1. version[r] \in 0..MaxRequests /\ version[r] < MaxRequests
    BY DEF Refresh, MarketInv, MarketType
  <2>2. version' = [q \in Resources |-> version[q] + 1]
    BY DEF Refresh, Ask
  <2>3. QED
    BY <2>1, <2>2, SessionAssumption DEF Requests
<1>2. ASSUME NEW r \in Resources
      PROVE  /\ data'[r].of = data[r].of /\ data'[r].refresh = "refreshing"
             /\ data'[r].load = IF data[r].of # 0 THEN "ready" ELSE "loading"
             /\ data'[r] \in Resource
  BY DEF Refresh, Ask, MarketInv, MarketType, Resource
<1> DEFINE asked == [at |-> "sent", token |-> storage.token, answer |-> "none"]
<1>3. asked \in Request
  BY DEF Request, UserInv, UserType
<1>4. request' = [r \in Resources |-> [request[r] EXCEPT ![version[r] + 1] = asked]]
  BY DEF Refresh, Ask
<1>5. asked.at = "sent"
  OBVIOUS
<1> HIDE DEF asked
<1>6. ASSUME NEW r \in Resources
      PROVE  /\ request'[r] \in [Requests -> Request]
             /\ request'[r][version[r] + 1].at = "sent"
             /\ \A n \in Requests : n # version[r] + 1 => request'[r][n] = request[r][n]
  <2>1. request[r] \in [Requests -> Request] /\ request'[r] = [request[r] EXCEPT ![version[r] + 1] = asked]
    BY <1>4 DEF MarketInv, MarketType
  <2>2. version[r] + 1 \in Requests
    BY <1>1
  <2>3. QED
    BY <2>1, <2>2, <1>3, <1>5
<1>7. UNCHANGED <<saved, reloads, failed>>
  BY DEF Refresh
<1>8. data' \in [Resources -> Resource] /\ request' \in [Resources -> [Requests -> Request]]
      /\ version' \in [Resources -> 0..MaxRequests]
  BY <1>1, <1>2, <1>4, <1>6 DEF Refresh, Ask
<1>9. MarketType'
  BY <1>7, <1>8 DEF MarketInv, MarketType
<1>10. ASSUME NEW r \in Resources PROVE InStep(r)'
  <2>1. /\ InStep(r) /\ version[r] \in Nat /\ data[r].of \in Nat /\ saved[r].of \in Nat
    BY DEF MarketInv, MarketType, Resource, Envelope
  <2>2. InFlight(r, version[r])'
    BY <1>1, <1>6 DEF InFlight
  <2>3. \A n \in Requests : n > version'[r] => request'[r][n].at = "none"
    BY <1>1, <1>6, <2>1 DEF InStep, Requests
  <2>4. QED
    BY <1>1, <1>2, <1>7, <2>1, <2>2, <2>3 DEF InStep
<1>11. QED
  BY <1>9, <1>10 DEF MarketInv

\* A request moves on: only the latest one concerns its resource.
LEMMA RequestMoves ==
  ASSUME MarketInv, NEW r \in Resources, NEW n \in Requests, NEW new \in Request,
         request' = [request EXCEPT ![r][n] = new], new.at # "none", request[r][n].at # "none",
         UNCHANGED <<version, reloads>>, failed' \in BOOLEAN, failed => failed',
         data' \in [Resources -> Resource], saved' \in [Resources -> Envelope],
         \A q \in Resources \ {r} : data'[q] = data[q] /\ saved'[q] = saved[q],
         data'[r].refresh = "refreshing" <=> InFlight(r, version[r])',
         data'[r].load = "ready" <=> data'[r].of # 0,
         data'[r].load = "loading" => data'[r].refresh = "refreshing",
         data'[r].of <= version[r], saved'[r].of <= version[r],
         saved'[r].usable => saved'[r].of # 0 /\ (failed' \/ saved'[r].of = data'[r].of)
  PROVE  MarketInv'
<1>1. request' \in [Resources -> [Requests -> Request]]
  BY DEF MarketInv, MarketType
<1>2. MarketType'
  BY <1>1 DEF MarketInv, MarketType
<1>3. \A q \in Resources, k \in Requests :
        request'[q][k] = IF q = r /\ k = n THEN new ELSE request[q][k]
  BY DEF MarketInv, MarketType
<1>4. ASSUME NEW q \in Resources, q # r PROVE InStep(q)'
  <2>1. InStep(q) /\ data'[q] = data[q] /\ saved'[q] = saved[q] /\ version'[q] = version[q]
    BY <1>4 DEF MarketInv
  <2>2. \A k \in Requests : request'[q][k] = request[q][k]
    BY <1>3, <1>4
  <2>3. QED
    BY <2>1, <2>2 DEF InStep, InFlight
<1>5. InStep(r)'
  <2>1. \A k \in Requests : k > version'[r] => request'[r][k].at = "none"
    BY <1>3 DEF MarketInv, InStep
  <2>2. version'[r] = version[r]
    OBVIOUS
  <2>3. QED
    BY <2>1, <2>2 DEF InStep
<1>6. QED
  BY <1>2, <1>4, <1>5 DEF MarketInv

LEMMA ServeInStep ==
  ASSUME MarketInv, NEW r \in Resources, NEW n \in Requests, Serve(r, n), failed \in BOOLEAN
  PROVE  MarketInv'
<1>1. PICK answer \in {"ok", "invalid", "error", "401"} :
        request' = [request EXCEPT ![r][n].at = "served", ![r][n].answer = answer]
  BY DEF Serve
<1> DEFINE new == [request[r][n] EXCEPT !.at = "served", !.answer = answer]
<1>2. request[r][n] \in Request
  BY DEF MarketInv, MarketType
<1>3. new \in Request /\ new.at = "served"
  BY <1>2 DEF Request
<1>4. request' = [request EXCEPT ![r][n] = new]
  BY <1>1 DEF MarketInv, MarketType
<1> HIDE DEF new
<1>5. InFlight(r, version[r])' <=> InFlight(r, version[r])
  BY <1>3, <1>4 DEF InFlight, Serve, MarketInv, MarketType
<1>6. InStep(r) /\ UNCHANGED <<data, saved, version, reloads, failed>> /\ request[r][n].at # "none"
  BY DEF MarketInv, Serve
<1>7. QED
  BY <1>3, <1>4, <1>5, <1>6, RequestMoves DEF InStep, MarketInv, MarketType

\* The page takes an answer: the request is over.
LEMMA OverMoves ==
  ASSUME MarketInv, NEW r \in Resources, NEW n \in Requests, Over(r, n), request[r][n].at = "served",
         UNCHANGED version
  PROVE  \E new \in Request : /\ request' = [request EXCEPT ![r][n] = new] /\ new.at # "none"
                              /\ InFlight(r, version[r])' <=> InFlight(r, version[r]) /\ n # version[r]
<1> DEFINE new == [request[r][n] EXCEPT !.at = "over"]
<1>1. request[r][n] \in Request
  BY DEF MarketInv, MarketType
<1>2. new \in Request /\ new.at = "over"
  BY <1>1 DEF Request
<1>3. request' = [request EXCEPT ![r][n] = new]
  BY DEF Over, MarketInv, MarketType
<1> HIDE DEF new
<1>4. InFlight(r, version[r])' <=> InFlight(r, version[r]) /\ n # version[r]
  BY <1>2, <1>3 DEF InFlight, MarketInv, MarketType
<1>5. QED
  BY <1>2, <1>3, <1>4

LEMMA ReceiveOldInStep ==
  ASSUME MarketInv, NEW r \in Resources, NEW n \in Requests, ReceiveOld(r, n), failed \in BOOLEAN
  PROVE  MarketInv'
<1>1. PICK new \in Request : /\ request' = [request EXCEPT ![r][n] = new] /\ new.at # "none"
                             /\ InFlight(r, version[r])' <=> InFlight(r, version[r]) /\ n # version[r]
  BY OverMoves DEF ReceiveOld
<1>2. InStep(r) /\ UNCHANGED <<data, saved, version, reloads, failed>> /\ request[r][n].at # "none"
      /\ n # version[r]
  BY DEF MarketInv, ReceiveOld
<1>3. QED
  BY <1>1, <1>2, RequestMoves DEF InStep, MarketInv, MarketType

LEMMA ReceiveOkInStep ==
  ASSUME MarketInv, NEW r \in Resources, NEW n \in Requests, ReceiveOk(r, n), failed \in BOOLEAN
  PROVE  MarketInv' /\ data'[r].of = version[r] /\ \A q \in Resources \ {r} : data'[q] = data[q]
<1>1. PICK new \in Request : /\ request' = [request EXCEPT ![r][n] = new] /\ new.at # "none"
                             /\ InFlight(r, version[r])' <=> InFlight(r, version[r]) /\ n # version[r]
  BY OverMoves DEF ReceiveOk
<1>2. PICK ok \in BOOLEAN :
        /\ Written(ok)
        /\ saved' = IF ok THEN [saved EXCEPT ![r] = [of |-> n, usable |-> TRUE]] ELSE saved
  BY DEF ReceiveOk, Stored
<1>3. data' = [data EXCEPT ![r] = [of |-> n, load |-> "ready", refresh |-> "idle", source |-> "network"]]
  BY DEF ReceiveOk, Stored
<1>4. n \in 0..MaxRequests /\ n # 0 /\ n = version[r] /\ n <= version[r]
  BY SessionAssumption DEF ReceiveOk, Requests
<1>5. data' \in [Resources -> Resource] /\ saved' \in [Resources -> Envelope]
  BY <1>2, <1>3, <1>4 DEF MarketInv, MarketType, Resource, Envelope
<1>6. /\ data'[r] = [of |-> n, load |-> "ready", refresh |-> "idle", source |-> "network"]
      /\ \A q \in Resources \ {r} : data'[q] = data[q] /\ saved'[q] = saved[q]
      /\ saved'[r] = IF ok THEN [of |-> n, usable |-> TRUE] ELSE saved[r]
  BY <1>2, <1>3 DEF MarketInv, MarketType
<1>7. failed' = (failed \/ ~ok) /\ UNCHANGED <<version, reloads>> /\ request[r][n].at # "none" /\ InStep(r)
  BY <1>2 DEF Written, ReceiveOk, MarketInv
<1>8. saved'[r].of <= version[r] /\ (saved'[r].usable => saved'[r].of # 0 /\ (failed' \/ saved'[r].of = data'[r].of))
  <2>1. CASE ok
    BY <1>4, <1>6, <2>1
  <2>2. CASE ~ok
    BY <1>6, <1>7, <2>2 DEF InStep
  <2>3. QED
    BY <2>1, <2>2
<1>9. QED
  <2>1. failed' \in BOOLEAN /\ (failed => failed')
    BY <1>7
  <2>2. /\ data'[r].refresh = "refreshing" <=> InFlight(r, version[r])'
        /\ data'[r].load = "ready" <=> data'[r].of # 0
        /\ data'[r].load = "loading" => data'[r].refresh = "refreshing"
        /\ data'[r].of <= version[r]
    BY <1>1, <1>4, <1>6
  <2>3. MarketInv'
    BY <1>1, <1>5, <1>6, <1>7, <1>8, <2>1, <2>2, RequestMoves
  <2>4. QED
    BY <1>4, <1>6, <2>3

LEMMA ReceiveBadInStep ==
  ASSUME MarketInv, NEW r \in Resources, NEW n \in Requests, ReceiveBad(r, n), failed \in BOOLEAN
  PROVE  MarketInv' /\ \A q \in Resources : data'[q].of = data[q].of
<1>1. PICK new \in Request : /\ request' = [request EXCEPT ![r][n] = new] /\ new.at # "none"
                             /\ InFlight(r, version[r])' <=> InFlight(r, version[r]) /\ n # version[r]
  BY OverMoves DEF ReceiveBad
<1>2. data[r] \in Resource /\ data \in [Resources -> Resource] /\ saved \in [Resources -> Envelope]
  BY DEF MarketInv, MarketType
<1>3. data' = [data EXCEPT ![r].refresh = "failed",
                           ![r].load = IF data[r].of # 0 THEN "ready" ELSE "error"]
  BY DEF ReceiveBad
<1>4. /\ data'[r].of = data[r].of /\ data'[r].refresh = "failed"
      /\ data'[r].load = IF data[r].of # 0 THEN "ready" ELSE "error"
      /\ data'[r] \in Resource
  BY <1>2, <1>3 DEF Resource
<1>5. data' \in [Resources -> Resource] /\ \A q \in Resources \ {r} : data'[q] = data[q]
  BY <1>2, <1>3, <1>4
<1>6. UNCHANGED <<saved, version, reloads, failed>> /\ request[r][n].at # "none" /\ InStep(r) /\ n = version[r]
  BY DEF ReceiveBad, MarketInv
<1>7. /\ data'[r].refresh = "refreshing" <=> InFlight(r, version[r])'
      /\ data'[r].load = "ready" <=> data'[r].of # 0
      /\ data'[r].load = "loading" => data'[r].refresh = "refreshing"
      /\ data'[r].of <= version[r] /\ saved'[r].of <= version[r]
      /\ saved'[r].usable => saved'[r].of # 0 /\ (failed' \/ saved'[r].of = data'[r].of)
  BY <1>1, <1>4, <1>6 DEF InStep
<1>8. MarketInv'
  BY <1>1, <1>2, <1>5, <1>6, <1>7, RequestMoves
<1>9. QED
  BY <1>4, <1>5, <1>8

LEMMA AgeInStep ==
  ASSUME MarketInv, NEW r \in Resources, Age(r)
  PROVE  MarketInv' /\ UNCHANGED data
<1>1. saved' \in [Resources -> Envelope]
      /\ \A q \in Resources : saved'[q].of = saved[q].of /\ (saved'[q].usable => saved[q].usable)
  BY DEF Age, MarketInv, MarketType, Envelope
<1>2. UNCHANGED <<data, version, request, reloads, failed>>
  BY DEF Age
<1>3. QED
  BY <1>1, <1>2 DEF MarketInv, MarketType, InStep, InFlight

\* A loaded page shows what is stored and still usable, which is what it has shown.
LEMMA ReloadInStep ==
  ASSUME MarketInv, Reload
  PROVE  /\ MarketInv' /\ reloads' # reloads
         /\ \A r \in Resources : failed \/ data'[r].of \in {0, data[r].of}
<1>1. UNCHANGED <<version, failed>> /\ reloads' = reloads + 1
      /\ request' = [r \in Resources |-> [n \in Requests |->
           IF InFlight(r, n) THEN [request[r][n] EXCEPT !.at = "over"] ELSE request[r][n]]]
      /\ data' = [r \in Resources |-> Hydrated(r)]
      /\ saved' = [r \in Resources |-> IF saved[r].usable THEN saved[r] ELSE [of |-> 0, usable |-> FALSE]]
  BY DEF Reload
<1>2. ASSUME NEW r \in Resources, NEW n \in Requests
      PROVE  /\ request'[r][n] \in Request /\ request'[r][n].at \notin {"sent", "served"}
             /\ request[r][n].at = "none" => request'[r][n].at = "none"
  <2>1. request[r][n] \in Request
    BY DEF MarketInv, MarketType
  <2>2. QED
    BY <1>1, <2>1 DEF Request, InFlight
<1>3. ASSUME NEW r \in Resources PROVE Hydrated(r) \in Resource
  BY SessionAssumption DEF Hydrated, Empty, MarketInv, MarketType, Resource, Envelope
<1>4. saved' \in [Resources -> Envelope] /\ data' \in [Resources -> Resource]
      /\ request' \in [Resources -> [Requests -> Request]]
  BY <1>1, <1>2, <1>3, SessionAssumption DEF MarketInv, MarketType, Envelope
<1>5. MarketType'
  BY <1>1, <1>4 DEF MarketInv, MarketType
<1>6. ASSUME NEW r \in Resources
      PROVE  InStep(r)' /\ (failed \/ data'[r].of \in {0, data[r].of})
  <2>1. /\ data'[r] = Hydrated(r) /\ InStep(r)
        /\ saved'[r] = IF saved[r].usable THEN saved[r] ELSE [of |-> 0, usable |-> FALSE]
    BY <1>1 DEF MarketInv
  <2>2. ~InFlight(r, version[r])'
    BY <1>2 DEF InFlight
  <2>3. \A n \in Requests : n > version'[r] => request'[r][n].at = "none"
    BY <1>1, <1>2, <2>1 DEF InStep
  <2>4. version[r] \in Nat /\ version'[r] = version[r] /\ failed' = failed
    BY <1>1 DEF MarketInv, MarketType
  <2>5. QED
    BY <2>1, <2>2, <2>3, <2>4 DEF InStep, Hydrated, Empty
<1>7. QED
  BY <1>1, <1>5, <1>6 DEF MarketInv, MarketType

\* Any step: the market stays in step with its requests, and what is shown goes forward.
Forward ==
  \A r \in Resources :
    IF reloads' = reloads THEN data'[r].of >= data[r].of
    ELSE failed \/ data'[r].of \in {0, data[r].of}

LEMMA MarketStep == UserInv /\ MarketInv /\ [Next]_vars => MarketInv' /\ Forward
<1> SUFFICES ASSUME UserInv, MarketInv, [Next]_vars PROVE MarketInv' /\ Forward
  OBVIOUS
<1> USE DEF Forward
<1>1. failed \in BOOLEAN /\ \A r \in Resources : data[r].of \in Nat /\ data[r].of <= version[r]
  BY DEF UserInv, UserType, MarketInv, MarketType, InStep, Resource
<1>2. CASE UNCHANGED <<market, reloads, failed>>
  BY <1>1, <1>2 DEF market, MarketInv, MarketType, InStep, InFlight
<1>3. CASE \E n \in Submits : SignIn(n)
  <2>1. UNCHANGED <<market, reloads>> /\ (failed => failed')
    BY <1>3 DEF SignIn, Written
  <2>2. QED
    BY <1>1, <2>1 DEF market, MarketInv, MarketType, InStep, InFlight
<1>4. CASE Refresh
  <2>1. UNCHANGED reloads /\ \A r \in Resources : data'[r].of = data[r].of
    BY <1>4 DEF Refresh, Ask, MarketInv, MarketType, Resource
  <2>2. QED
    BY <1>1, <1>4, <2>1, RefreshInStep
<1>5. CASE Reload
  BY <1>5, ReloadInStep
<1>6. ASSUME NEW r \in Resources, NEW n \in Requests, Serve(r, n) \/ Receives(r, n)
      PROVE  MarketInv' /\ Forward
  <2>1. CASE Serve(r, n)
    <3>1. UNCHANGED <<data, reloads>> /\ MarketInv'
      BY <1>1, <2>1, ServeInStep DEF Serve
    <3>2. QED
      BY <1>1, <3>1
  <2>2. CASE ReceiveOld(r, n)
    <3>1. UNCHANGED <<data, reloads>> /\ MarketInv'
      BY <1>1, <2>2, ReceiveOldInStep DEF ReceiveOld
    <3>2. QED
      BY <1>1, <3>1
  <2>3. CASE ReceiveOk(r, n)
    <3>1. UNCHANGED reloads
      BY <2>3 DEF ReceiveOk
    <3>2. MarketInv' /\ data'[r].of = version[r] /\ \A q \in Resources \ {r} : data'[q] = data[q]
      BY <1>1, <2>3, ReceiveOkInStep
    <3>3. version[r] \in Nat
      BY DEF MarketInv, MarketType
    <3>4. QED
      BY <1>1, <3>1, <3>2, <3>3
  <2>4. CASE ReceiveBad(r, n)
    <3>1. UNCHANGED reloads
      BY <2>4 DEF ReceiveBad
    <3>2. MarketInv' /\ \A q \in Resources : data'[q].of = data[q].of
      BY <1>1, <2>4, ReceiveBadInStep
    <3>3. QED
      BY <1>1, <3>1, <3>2
  <2>5. QED
    BY <1>6, <2>1, <2>2, <2>3, <2>4 DEF Receives
<1>7. CASE \E r \in Resources : Age(r)
  <2>1. UNCHANGED reloads
    BY <1>7 DEF Age
  <2>2. QED
    BY <1>1, <1>7, <2>1, AgeInStep
<1>8. QED
  <2>1. CASE \E n \in Submits : Answers(n) /\ ~SignIn(n)
    BY <1>2, <2>1 DEF Answers, ServeLogin, ServeLookup, ServeCommit, SubmitFails
  <2>2. CASE \/ \E n \in Submits, mode \in {"login", "register"}, email \in Emails : Submit(n, mode, email)
             \/ \E n \in Submits : Expire(n)
             \/ Revisit \/ SignOut
    BY <1>2, <2>2 DEF Submit, Expire, Revisit, SignOut
  <2>3. CASE UNCHANGED vars
    BY <1>2, <2>3 DEF vars, market
  <2>4. QED
    BY <1>3, <1>4, <1>5, <1>6, <1>7, <2>1, <2>2, <2>3 DEF Next, Answers

\* A resource is shown as being refreshed exactly while its latest request is under way.
THEOREM RefreshingCorrect == Spec => []RefreshingMeansAsked
<1>1. UserInv /\ MarketInv => RefreshingMeansAsked
  BY DEF UserInv, UserType, MarketInv, MarketType, InStep, RefreshingMeansAsked, TypeOK
<1>2. QED
  BY <1>1, UserInit, UserStep, MarketInit, MarketStep, PTL DEF Spec

\* What is shown is replaced only by the answer to a later request, for any number of
\* requests; a reload shows what was shown, or nothing, unless a write has failed.
THEOREM ShownOnlyMovesForward == Spec => ShownMovesForward
<1>1. UserInv /\ MarketInv /\ [Next]_vars =>
        [\A r \in Resources : IF reloads' = reloads THEN data'[r].of >= data[r].of
                              ELSE failed \/ data'[r].of \in {0, data[r].of}]_vars
  BY MarketStep DEF Forward
<1>2. QED
  BY <1>1, UserInit, UserStep, MarketInit, MarketStep, PTL DEF Spec, ShownMovesForward
=============================================================================
