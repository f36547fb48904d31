-------------------------- MODULE SeparateParts_proofs --------------------------
(***************************************************************************)
(* The parts that MCSeparateParts puts side by side.                       *)
(*                                                                         *)
(* The login rate limit is exact for every limit, window and set of        *)
(* addresses: no window is overfull, and no attempt is refused without     *)
(* need.  The invariant says that pruning forgets nothing of the current   *)
(* window and mixes no addresses; then the attempts counted before one is  *)
(* let through are all those it can share a window with.                   *)
(*                                                                         *)
(* The categories of payments are those of the rules for every statement,  *)
(* every number of uploads and updates at a time, and every failure.  An   *)
(* update that nothing has met is alone with its merchant: each step that  *)
(* could change what it has read or written takes its mark away.  What it  *)
(* selects and then recategorises is therefore all the merchant's          *)
(* payments, and the rule it made is the one that is there at its end.     *)
(*                                                                         *)
(* The caches of the data service are bounded and fresh for every set of   *)
(* functions that call one another without going round, and any number of  *)
(* threads.  The invariant counts what a cache holds too much of: an       *)
(* entry for each thread that has stored and may still evict, and one for  *)
(* each eviction that raised.  It dates the sources of each result: a call *)
(* began no later than the one that it waits for, so that what is handed   *)
(* up is older by less than a time to live at each cache it passes.  Wait, *)
(* the sum of these, is a recursive function: it is shown to be what its   *)
(* definition says by taking, of the functions for which it would not be,  *)
(* one whose caller is not among them.                                     *)
(***************************************************************************)
EXTENDS LoginRateLimit, Bills, AnswerCaches, FiniteSetTheorems, WellFoundedInduction, TLAPS

(***************************************************************************)
(* The login rate limit.                                                   *)
(***************************************************************************)

\* The invariant without the bound itself.
Kept == TypeOK /\ NothingForgottenTooSoon /\ NoFutureAttempt

LEMMA Limits == MaxLoginAttempts \in Nat \ {0} /\ LoginBlockWindow \in Nat \ {0}
BY LimitAssumption

LEMMA Logged ==
  ASSUME TypeOK, NEW i \in DOMAIN log
  PROVE  i \in Nat /\ log[i] \in Attempt /\ log[i].at \in Nat /\ log[i].ip \in IP
<1>1. i \in Nat /\ log[i] \in Attempt
  BY DEF TypeOK
<1> QED
  BY <1>1 DEF Attempt

LEMMA Appended ==
  ASSUME TypeOK, NEW r \in Attempt, log' = Append(log, r)
  PROVE  /\ log' \in Seq(Attempt)
         /\ Len(log) \in Nat
         /\ DOMAIN log' = DOMAIN log \cup {Len(log) + 1}
         /\ Len(log) + 1 \notin DOMAIN log
         /\ \A i \in DOMAIN log : log'[i] = log[i]
         /\ log'[Len(log) + 1] = r
BY DEF TypeOK

LEMMA InitIInv == Init => IInv
<1> SUFFICES ASSUME Init PROVE IInv
  OBVIOUS
<1>1. TypeOK
  BY DEF Init, TypeOK
<1>2. DOMAIN log = {}
  BY DEF Init
<1>3. \A ip \in IP : \A w : InWindow(ip, w) = {}
  BY <1>2 DEF InWindow
<1>4. NothingForgottenTooSoon
  BY <1>3 DEF Init, NothingForgottenTooSoon, LastWindow
<1>5. AtMostMaxPerWindow
  BY <1>3, FS_EmptySet, Limits DEF AtMostMaxPerWindow
<1> QED
  BY <1>1, <1>2, <1>4, <1>5 DEF IInv, NoFutureAttempt

\* Recent keeps what is still in the window, and nothing but that is counted.
LEMMA RecentIsLastWindow ==
  ASSUME Kept, NEW ip \in IP
  PROVE  Recent(loginAttempts[ip]) = LastWindow(ip)
<1>1. \A i \in loginAttempts[ip] : i \in DOMAIN log /\ log[i].ip = ip
  BY DEF Kept, NothingForgottenTooSoon
<1>2. LastWindow(ip) \subseteq loginAttempts[ip]
  BY DEF Kept, NothingForgottenTooSoon
<1>3. \A i \in DOMAIN log : log[i].at \in Nat /\ log[i].at <= now
  BY Logged DEF Kept, NoFutureAttempt
<1>4. now \in Nat
  BY DEF Kept, TypeOK
<1> QED
  BY <1>1, <1>2, <1>3, <1>4, Limits DEF Recent, LastWindow, InWindow

LEMMA WindowIsFinite ==
  ASSUME TypeOK, NEW ip, NEW w
  PROVE  IsFiniteSet(InWindow(ip, w))
<1>1. DOMAIN log = 1..Len(log) /\ Len(log) \in Nat
  BY DEF TypeOK
<1>2. IsFiniteSet(DOMAIN log)
  BY <1>1, FS_Interval
<1> QED
  BY <1>2, FS_Subset DEF InWindow

LEMMA AddOne ==
  ASSUME NEW S, NEW x, IsFiniteSet(S)
  PROVE  Cardinality(S \cup {x}) <= Cardinality(S) + 1
<1>1. Cardinality(S) \in Nat
  BY FS_CardinalityType
<1>2. Cardinality(S \cup {x}) = IF x \in S THEN Cardinality(S) ELSE Cardinality(S) + 1
  BY FS_AddElement
<1> QED
  BY <1>1, <1>2

LEMMA AdmitStep ==
  ASSUME IInv, NEW jp \in IP, Admit(jp)
  PROVE  IInv'
<1> DEFINE n == Len(log) + 1
           r == [ip |-> jp, at |-> now]
<1>a. Kept /\ TypeOK /\ now \in Nat
  BY DEF IInv, Kept, TypeOK
<1>b. now' = now /\ log' = Append(log, r)
      /\ loginAttempts' = [loginAttempts EXCEPT ![jp] = Recent(loginAttempts[jp]) \cup {n}]
      /\ refused' = refused \ {jp}
  BY DEF Admit
<1>r. r \in Attempt
  BY <1>a DEF Attempt
<1>c. /\ log' \in Seq(Attempt) /\ n \in Nat
      /\ DOMAIN log' = DOMAIN log \cup {n} /\ n \notin DOMAIN log
      /\ \A i \in DOMAIN log : log'[i] = log[i]
      /\ log'[n] = r
  BY <1>a, <1>b, <1>r, Appended
<1> HIDE DEF n
<1>1. TypeOK'
  BY <1>a, <1>b, <1>c DEF TypeOK, Recent
<1>2. NoFutureAttempt'
  BY <1>a, <1>b, <1>c DEF IInv, NoFutureAttempt
<1>3. \A ip \in IP : \A w \in Int :
        InWindow(ip, w)' = InWindow(ip, w) \cup
          (IF ip = jp /\ w < now /\ now <= w + LoginBlockWindow THEN {n} ELSE {})
  BY <1>c DEF InWindow
<1>4. Recent(loginAttempts[jp]) = LastWindow(jp)
  BY <1>a, RecentIsLastWindow
<1>5. NothingForgottenTooSoon'
  <2>1. \A ip \in IP : LastWindow(ip)' = LastWindow(ip) \cup (IF ip = jp THEN {n} ELSE {})
    BY <1>a, <1>b, <1>3, Limits DEF LastWindow
  <2>2. \A ip \in IP : loginAttempts'[ip] =
          IF ip = jp THEN LastWindow(jp) \cup {n} ELSE loginAttempts[ip]
    BY <1>b, <1>4, <1>a DEF TypeOK
  <2>3. \A ip \in IP : LastWindow(ip)' \subseteq loginAttempts'[ip]
    BY <2>1, <2>2 DEF IInv, NothingForgottenTooSoon
  <2>4. \A ip \in IP : \A i \in loginAttempts'[ip] : i \in DOMAIN log' /\ log'[i].ip = ip
    <3>1. \A i \in LastWindow(jp) : i \in DOMAIN log /\ log[i].ip = jp
      BY DEF LastWindow, InWindow
    <3> QED
      BY <1>c, <2>2, <3>1 DEF IInv, NothingForgottenTooSoon
  <2> QED
    BY <2>3, <2>4 DEF NothingForgottenTooSoon
<1>6. AtMostMaxPerWindow'
  <2> SUFFICES ASSUME NEW ip \in IP, NEW w \in -LoginBlockWindow..now
               PROVE  Cardinality(InWindow(ip, w)') <= MaxLoginAttempts
    BY <1>b DEF AtMostMaxPerWindow
  <2>0. w \in Int
    BY Limits
  <2>1. Cardinality(InWindow(ip, w)) <= MaxLoginAttempts
    BY DEF IInv, AtMostMaxPerWindow
  <2>2. CASE ip = jp /\ w < now /\ now <= w + LoginBlockWindow
    <3>1. InWindow(ip, w)' = InWindow(ip, w) \cup {n}
      BY <1>3, <2>0, <2>2
    <3>2. InWindow(ip, w) \subseteq LastWindow(jp)
      BY <1>a, <2>0, <2>2, Limits, Logged DEF InWindow, LastWindow, IInv, NoFutureAttempt
    <3>3. IsFiniteSet(LastWindow(jp)) /\ IsFiniteSet(InWindow(ip, w))
      BY <1>a, WindowIsFinite DEF LastWindow
    <3>4. Cardinality(LastWindow(jp)) < MaxLoginAttempts
      BY <1>4 DEF Admit, Admits
    <3>5. Cardinality(InWindow(ip, w)) <= Cardinality(LastWindow(jp))
      BY <3>2, <3>3, FS_Subset
    <3>6. /\ Cardinality(InWindow(ip, w)) \in Nat /\ Cardinality(LastWindow(jp)) \in Nat
      BY <3>3, FS_CardinalityType
    <3>7. Cardinality(InWindow(ip, w) \cup {n}) <= Cardinality(InWindow(ip, w)) + 1
      BY <3>3, AddOne
    <3>8. Cardinality(InWindow(ip, w) \cup {n}) \in Nat
      BY <3>3, FS_AddElement, FS_CardinalityType
    <3> QED
      BY <3>1, <3>4, <3>5, <3>6, <3>7, <3>8, Limits
  <2>3. CASE ~(ip = jp /\ w < now /\ now <= w + LoginBlockWindow)
    <3>1. InWindow(ip, w)' = InWindow(ip, w)
      BY <1>3, <2>0, <2>3
    <3> QED
      BY <2>1, <3>1
  <2> QED
    BY <2>2, <2>3
<1> QED
  BY <1>1, <1>2, <1>5, <1>6 DEF IInv

\* Refusing an attempt, and sweeping, prune what Recent does not keep.
LEMMA PruneStep ==
  ASSUME IInv, UNCHANGED <<now, log>>, refused' \subseteq IP,
         loginAttempts' \in [IP -> SUBSET Nat],
         \A ip \in IP : /\ Recent(loginAttempts[ip]) \subseteq loginAttempts'[ip]
                        /\ loginAttempts'[ip] \subseteq loginAttempts[ip]
  PROVE  IInv'
<1>1. TypeOK'
  BY DEF IInv, TypeOK
<1>2. NoFutureAttempt'
  BY DEF IInv, NoFutureAttempt
<1>3. \A ip \in IP : \A w : InWindow(ip, w)' = InWindow(ip, w)
  BY DEF InWindow
<1>4. \A ip \in IP : LastWindow(ip)' = LastWindow(ip)
  BY <1>3 DEF LastWindow
<1>5. \A ip \in IP : LastWindow(ip) = Recent(loginAttempts[ip])
  BY RecentIsLastWindow DEF IInv, Kept
<1>6. NothingForgottenTooSoon'
  BY <1>4, <1>5 DEF IInv, NothingForgottenTooSoon
<1>7. AtMostMaxPerWindow'
  BY <1>3 DEF IInv, AtMostMaxPerWindow
<1> QED
  BY <1>1, <1>2, <1>6, <1>7 DEF IInv

LEMMA TickStep ==
  ASSUME IInv, Tick
  PROVE  IInv'
<1>a. now \in Nat /\ now' = now + 1 /\ now' \in Nat /\ UNCHANGED <<loginAttempts, log, refused>>
  BY DEF IInv, TypeOK, Tick
<1>1. TypeOK'
  BY <1>a DEF IInv, TypeOK
<1>b. \A i \in DOMAIN log : log[i].at \in Nat /\ log[i].at <= now
  BY Logged DEF IInv, NoFutureAttempt
<1>2. NoFutureAttempt'
  BY <1>a, <1>b DEF NoFutureAttempt
<1>3. \A ip \in IP : \A w : InWindow(ip, w)' = InWindow(ip, w)
  BY <1>a DEF InWindow
<1>4. \A ip \in IP : LastWindow(ip)' \subseteq LastWindow(ip)
  BY <1>a, <1>b, Limits DEF LastWindow, InWindow
<1>5. NothingForgottenTooSoon'
  BY <1>a, <1>4 DEF IInv, NothingForgottenTooSoon
<1>6. AtMostMaxPerWindow'
  <2> SUFFICES ASSUME NEW ip \in IP, NEW w \in (-LoginBlockWindow..now)'
               PROVE  Cardinality(InWindow(ip, w)') <= MaxLoginAttempts
    BY DEF AtMostMaxPerWindow
  <2>1. CASE w \in -LoginBlockWindow..now
    BY <1>3, <2>1 DEF IInv, AtMostMaxPerWindow
  <2>2. CASE w = now + 1
    <3>1. InWindow(ip, w) = {}
      BY <1>a, <1>b, <2>2 DEF InWindow
    <3> QED
      BY <1>3, <3>1, FS_EmptySet, Limits
  <2> QED
    BY <1>a, <2>1, <2>2, Limits
<1> QED
  BY <1>1, <1>2, <1>5, <1>6 DEF IInv

LEMMA NextIInv == IInv /\ [Next]_vars => IInv'
<1>1. ASSUME IInv, NEW ip \in IP, Admit(ip) PROVE IInv'
  BY <1>1, AdmitStep
<1>2. ASSUME IInv, NEW ip \in IP, Refuse(ip) PROVE IInv'
  <2>1. loginAttempts \in [IP -> SUBSET Nat] /\ refused \subseteq IP
    BY <1>2 DEF IInv, TypeOK
  <2> QED
    BY <1>2, <2>1, PruneStep DEF Refuse, Recent
<1>3. ASSUME IInv, ClearExpired PROVE IInv'
  <2>1. loginAttempts \in [IP -> SUBSET Nat] /\ refused \subseteq IP
    BY <1>3 DEF IInv, TypeOK
  <2> QED
    BY <1>3, <2>1, PruneStep DEF ClearExpired, Recent
<1>4. ASSUME IInv, Tick PROVE IInv'
  BY <1>4, TickStep
<1>5. ASSUME IInv, UNCHANGED vars PROVE IInv'
  <2>1. UNCHANGED <<now, log>> /\ UNCHANGED loginAttempts /\ UNCHANGED refused
    BY <1>5 DEF vars
  <2>2. loginAttempts \in [IP -> SUBSET Nat] /\ refused \subseteq IP
    BY <1>5 DEF IInv, TypeOK
  <2> QED
    BY <1>5, <2>1, <2>2, PruneStep DEF Recent
<1> QED
  BY <1>1, <1>2, <1>3, <1>4, <1>5 DEF Next

\* No step forgets an attempt of the current window, mixes addresses or overfills
\* a window: the invariant of checkLoginRateLimit and of the sweep.
THEOREM Invariance == Spec => []IInv
<1> QED
  BY InitIInv, NextIInv, PTL DEF Spec

\* No window of fifteen minutes holds more than five attempts let through.
THEOREM WindowsAreNeverOverfull == Spec => []AtMostMaxPerWindow
<1>1. IInv => AtMostMaxPerWindow
  BY DEF IInv
<1> QED
  BY <1>1, Invariance, PTL

\* Whoever is refused has used up the window that ends now.
THEOREM RefusalsAreDue == Spec => RefusedOnlyWhenFull
<1> DEFINE Due == \A ip \in IP : Refuse(ip) => Cardinality(LastWindow(ip)) >= MaxLoginAttempts
<1>1. IInv => Due
  <2> SUFFICES ASSUME IInv, NEW ip \in IP, Refuse(ip)
               PROVE  Cardinality(LastWindow(ip)) >= MaxLoginAttempts
    OBVIOUS
  <2>1. Recent(loginAttempts[ip]) = LastWindow(ip)
    BY RecentIsLastWindow DEF IInv, Kept
  <2>2. Cardinality(LastWindow(ip)) \in Nat
    BY WindowIsFinite, FS_CardinalityType DEF IInv, LastWindow
  <2> QED
    BY <2>1, <2>2, Limits DEF Refuse, Admits
<1>2. IInv /\ [Next]_vars => [Due]_vars
  BY <1>1
<1> QED
  BY <1>2, Invariance, PTL DEF Spec, RefusedOnlyWhenFull

(***************************************************************************)
(* The categories of payments.                                             *)
(***************************************************************************)

AnyCategory == Categories \union {Other}
Payment == [merchant : Merchants, category : AnyCategory]
MerchantRule == [category : AnyCategory, source : {"user", "llm"}]
\* No question is asked about a merchant for which a rule of the user's was found.
Question == {q \in [entry : Entries, ruled : BOOLEAN, failed : BOOLEAN] : q.ruled => q.failed}
Uploading == [at : {"lookup", "insert"}, entry : Entries, category : AnyCategory,
              pending : SUBSET Question, known : SUBSET SavingsAccounts]
Updating == [at : {"rule", "select", "apply"}, entry : Entries, merchant : Merchants,
             category : Categories, ids : SUBSET Entries, clean : BOOLEAN]

BillsTypeOK ==
  /\ payments \in [Entries -> Payment \union {NoRow}]
  /\ rules \in [Merchants -> MerchantRule \union {NoRow}]
  /\ uploads \in [Imports -> Uploading \union {Resting}]
  /\ questions \in [Imports -> SUBSET Question]
  /\ updates \in [Updates -> Updating \union {Resting}]
  /\ calls \in Nat /\ errors \in Nat
  /\ disturbed \in SUBSET Merchants

\* No rule of the user's has the category Other, so the seeds and the model are not asked.
UsersRulesHaveACategory ==
  \A m \in Merchants : UserRule(m) => rules[m].category \in Categories

\* The payment that is corrected, the rule that is made of it, and the payments found.
Agrees(update) ==
  /\ update.entry \in Rows /\ payments[update.entry].merchant = update.merchant =>
         payments[update.entry].category = update.category
  /\ update.at # "rule" /\ UserRule(update.merchant) =>
         rules[update.merchant].category = update.category
  /\ update.at = "apply" => \A e \in Rows :
         payments[e].merchant = update.merchant => e = update.entry \/ e \in update.ids

\* An update that is clean is alone with its merchant, and what it has read still holds;
\* the merchant of any other is disturbed.
CleanUpdatesAreAlone ==
  \A u \in Updates : updates[u] # Resting =>
      IF updates[u].clean
      THEN Concerned(updates[u].merchant) = {u} /\ Agrees(updates[u])
      ELSE updates[u].merchant \in disturbed

Follow(m) ==
  \A e \in Rows : payments[e].merchant = m => payments[e].category = rules[m].category \/ Transferred(e)

\* What the import is about to insert has the category of the rule, or is a transfer.
InsertFollows(i, m) ==
  \/ uploads[i].category = rules[m].category
  \/ uploads[i].category = Transfer /\ Statement[uploads[i].entry].account \in SavingsAccounts

\* Without an update, the payments of a merchant follow the user's rule, the one that an
\* import is about to insert included.
QuietMerchantsFollow ==
  \A m \in Merchants : m \notin disturbed /\ UpdatesOf(m) = {} /\ UserRule(m) =>
      Follow(m) /\ \A i \in InsertsOf(m) : InsertFollows(i, m)

BillsIInv == BillsTypeOK /\ UsersRulesHaveACategory /\ CleanUpdatesAreAlone /\ QuietMerchantsFollow

SavingsAreKnown == savings \in SUBSET SavingsAccounts

LEMMA StatementFacts ==
  /\ Len(Statement) \in Nat \ {0} /\ Entries = 1 .. Len(Statement) /\ 1 \in Entries
  /\ \A e \in Entries : Statement[e].merchant \in Merchants
  /\ \A e \in Entries : e < Len(Statement) => e + 1 \in Entries
BY BillsAssumption DEF Entries

LEMMA NoRowIsNone == NoRow \notin Payment /\ NoRow \notin MerchantRule
<1>1. DOMAIN NoRow = {"is"}
  BY DEF NoRow
<1>2. \A p \in Payment : "merchant" \in DOMAIN p
  BY DEF Payment
<1>3. \A r \in MerchantRule : "source" \in DOMAIN r
  BY DEF MerchantRule
<1> QED
  BY <1>1, <1>2, <1>3

LEMMA RowFacts ==
  ASSUME BillsTypeOK
  PROVE  /\ Rows \subseteq Entries
         /\ \A e \in Rows : /\ payments[e] \in Payment
                            /\ payments[e].merchant \in Merchants /\ payments[e].category \in AnyCategory
BY DEF BillsTypeOK, Rows, Payment

LEMMA RuleFacts ==
  ASSUME BillsTypeOK, NEW m \in Merchants, rules[m] # NoRow
  PROVE  rules[m] \in MerchantRule /\ rules[m].category \in AnyCategory
BY DEF BillsTypeOK, MerchantRule

LEMMA UpdateFacts ==
  ASSUME BillsTypeOK, NEW u \in Updates
  PROVE  /\ updates[u] # Resting => updates[u] \in Updating
         /\ updates[u].at \in {"rule", "select", "apply"} => updates[u] # Resting
<1>1. updates[u] \in Updating \union {Resting}
  BY DEF BillsTypeOK
<1>2. Resting.at = "idle"
  BY DEF Resting
<1> QED
  BY <1>1, <1>2

LEMMA UpdatingFacts ==
  ASSUME NEW x \in Updating
  PROVE  /\ x # Resting /\ x.at \in {"rule", "select", "apply"} /\ x.entry \in Entries
         /\ x.merchant \in Merchants /\ x.category \in Categories /\ x.ids \in SUBSET Entries
         /\ x.clean \in BOOLEAN
BY DEF Updating, Resting

LEMMA UploadFacts ==
  ASSUME BillsTypeOK, NEW i \in Imports
  PROVE  uploads[i].at \in {"lookup", "insert"} =>
             /\ uploads[i] \in Uploading
             /\ uploads[i].entry \in Entries /\ uploads[i].pending \in SUBSET Question
             /\ uploads[i].category \in AnyCategory /\ uploads[i].known \in SUBSET SavingsAccounts
<1>1. uploads[i] \in Uploading \union {Resting}
  BY DEF BillsTypeOK
<1> QED
  BY <1>1 DEF Uploading, Resting

\* Soil takes the mark of the merchant's updates away and changes nothing else.
LEMMA SoilFacts ==
  ASSUME BillsTypeOK, NEW m \in Merchants
  PROVE  /\ Soil(m) \in [Updates -> Updating \union {Resting}]
         /\ \A u \in Updates \ UpdatesOf(m) : Soil(m)[u] = updates[u]
         /\ \A u \in UpdatesOf(m) : /\ Soil(m)[u] # Resting /\ Soil(m)[u].merchant = m
                                    /\ ~Soil(m)[u].clean
<1>1. ASSUME NEW u \in UpdatesOf(m)
      PROVE  [updates[u] EXCEPT !.clean = FALSE] \in Updating
  <2>1. u \in Updates /\ updates[u] \in Updating
    BY UpdateFacts DEF UpdatesOf
  <2> QED
    BY <2>1 DEF Updating
<1>2. \A u \in UpdatesOf(m) : u \in Updates /\ updates[u] \in Updating /\ updates[u].merchant = m
  BY UpdateFacts DEF UpdatesOf
<1>3. \A u \in UpdatesOf(m) :
          /\ Soil(m)[u] = [updates[u] EXCEPT !.clean = FALSE]
          /\ Soil(m)[u].merchant = m /\ ~Soil(m)[u].clean
  BY <1>2 DEF Soil, Updating
<1>4. Soil(m) \in [Updates -> Updating \union {Resting}]
  BY <1>1 DEF Soil, BillsTypeOK
<1> QED
  BY <1>1, <1>3, <1>4, UpdatingFacts DEF Soil

\* What a step may do with a merchant and leave its updates and its quiet as they are.
RowsOnlyLeave(m) == \A e \in Rows' : payments'[e].merchant = m => e \in Rows /\ payments'[e] = payments[e]
RuleOnlyGoes(m) == UserRule(m)' => rules'[m] = rules[m]
InsertsOnlyGo(m) ==
  \A i \in InsertsOf(m)' : i \in InsertsOf(m) /\ uploads'[i] = uploads[i]

\* A clean update that nothing meets stays what it is.
LEMMA UpdateIsKept ==
  ASSUME BillsTypeOK, CleanUpdatesAreAlone,
         NEW u \in Updates, NEW m \in Merchants, updates[u] # Resting, updates[u].merchant = m,
         updates'[u] = updates[u],
         RowsOnlyLeave(m), RuleOnlyGoes(m), InsertsOnlyGo(m),
         UpdatesOf(m)' \subseteq UpdatesOf(m), m \in disturbed => m \in disturbed'
  PROVE  IF updates'[u].clean THEN Concerned(m)' = {u} /\ Agrees(updates[u])' ELSE m \in disturbed'
<1>1. CASE ~updates[u].clean
  BY <1>1 DEF CleanUpdatesAreAlone
<1>2. CASE updates[u].clean
  <2>1. Concerned(m) = {u} /\ Agrees(updates[u])
    BY <1>2 DEF CleanUpdatesAreAlone
  <2>2. u \in UpdatesOf(m)'
    BY DEF UpdatesOf
  <2>3. Concerned(m)' = {u}
    BY <2>1, <2>2 DEF Concerned, InsertsOnlyGo
  <2>4. UserRule(m)' => UserRule(m) /\ rules'[m] = rules[m]
    BY DEF RuleOnlyGoes, UserRule
  <2>5. Agrees(updates[u])'
    BY <2>1, <2>4 DEF Agrees, RowsOnlyLeave
  <2> QED
    BY <1>2, <2>3, <2>5
<1> QED
  BY <1>1, <1>2

\* A quiet merchant to which nothing comes stays quiet.
LEMMA QuietIsKept ==
  ASSUME BillsTypeOK, QuietMerchantsFollow, NEW m \in Merchants,
         m \notin disturbed, UpdatesOf(m) = {}, UserRule(m)',
         RowsOnlyLeave(m), RuleOnlyGoes(m), InsertsOnlyGo(m)
  PROVE  Follow(m)' /\ \A i \in InsertsOf(m)' : InsertFollows(i, m)'
<1>1. UserRule(m) /\ rules'[m] = rules[m]
  BY DEF RuleOnlyGoes, UserRule
<1>2. Follow(m) /\ \A i \in InsertsOf(m) : InsertFollows(i, m)
  BY <1>1 DEF QuietMerchantsFollow
<1> QED
  BY <1>1, <1>2 DEF Follow, RowsOnlyLeave, InsertsOnlyGo, InsertFollows, Transferred

\* CleanUpdatesAreAlone in the next state, by the merchant of each update.
LEMMA CleanFromEach ==
  ASSUME BillsTypeOK',
         \A u \in Updates, m \in Merchants : updates'[u] # Resting /\ updates'[u].merchant = m =>
             IF updates'[u].clean THEN Concerned(m)' = {u} /\ Agrees(updates[u])' ELSE m \in disturbed'
  PROVE  CleanUpdatesAreAlone'
<1> SUFFICES ASSUME NEW u \in Updates, updates'[u] # Resting
             PROVE  IF updates'[u].clean
                    THEN Concerned(updates[u].merchant)' = {u} /\ Agrees(updates[u])'
                    ELSE updates'[u].merchant \in disturbed'
  BY DEF CleanUpdatesAreAlone
<1>1. updates'[u] \in Updating
  BY DEF BillsTypeOK
<1>2. PICK m \in Merchants : m = updates'[u].merchant
  BY <1>1, UpdatingFacts
<1>3. Concerned(updates[u].merchant)' = Concerned(m)'
  BY <1>2
<1> QED
  BY <1>2, <1>3

LEMMA NothingIsMet ==
  ASSUME BillsIInv, BillsTypeOK', UsersRulesHaveACategory', UNCHANGED updates, disturbed \subseteq disturbed',
         \A m \in Merchants : RowsOnlyLeave(m) /\ RuleOnlyGoes(m) /\ InsertsOnlyGo(m)
  PROVE  BillsIInv'
<1> USE DEF BillsIInv
<1>1. \A m \in Merchants : UpdatesOf(m)' = UpdatesOf(m)
  BY DEF UpdatesOf
<1>2. ASSUME NEW u \in Updates, updates'[u] # Resting,
             NEW m \in Merchants, updates'[u].merchant = m
      PROVE  IF updates'[u].clean THEN Concerned(m)' = {u} /\ Agrees(updates[u])' ELSE m \in disturbed'
  <2>1. updates[u] # Resting /\ updates'[u] = updates[u] /\ updates[u].merchant = m
    BY <1>2
  <2> QED
    BY <2>1, <1>1, UpdateIsKept
<1>3. CleanUpdatesAreAlone'
  BY <1>2, CleanFromEach
<1>4. ASSUME NEW m \in Merchants, m \notin disturbed', UpdatesOf(m)' = {}, UserRule(m)'
      PROVE  Follow(m)' /\ \A i \in InsertsOf(m)' : InsertFollows(i, m)'
  BY <1>1, <1>4, QuietIsKept
<1>5. QuietMerchantsFollow'
  BY <1>4 DEF QuietMerchantsFollow
<1> QED
  BY <1>3, <1>5

LEMMA Unchanged ==
  ASSUME NEW m
  PROVE  /\ UNCHANGED payments => RowsOnlyLeave(m)
         /\ UNCHANGED rules => RuleOnlyGoes(m)
         /\ UNCHANGED uploads => InsertsOnlyGo(m)
BY DEF RowsOnlyLeave, RuleOnlyGoes, InsertsOnlyGo, InsertsOf, Rows

LEMMA InitBillsIInv == BillsInit => BillsIInv
<1> SUFFICES ASSUME BillsInit PROVE BillsIInv
  OBVIOUS
<1>1. BillsTypeOK
  BY DEF BillsInit, BillsTypeOK, Entries
<1>2. \A m \in Merchants : ~UserRule(m)
  BY DEF BillsInit, UserRule
<1>3. \A u \in Updates : updates[u] = Resting
  BY DEF BillsInit
<1> QED
  BY <1>1, <1>2, <1>3 DEF BillsIInv, UsersRulesHaveACategory, CleanUpdatesAreAlone, QuietMerchantsFollow

LEMMA UploadStep == ASSUME BillsIInv, SavingsAreKnown, NEW i \in Imports, Upload(i) PROVE BillsIInv'
<1>1. PICK known \in SUBSET savings :
        /\ IF known = savings THEN NoError ELSE Error
        /\ uploads' = [uploads EXCEPT ![i] =
               [at |-> "lookup", entry |-> 1, category |-> Other, pending |-> {}, known |-> known]]
  BY DEF Upload
<1> DEFINE upload == [at |-> "lookup", entry |-> 1, category |-> Other, pending |-> {}, known |-> known]
<1>2. upload \in Uploading
  BY StatementFacts DEF Uploading, AnyCategory, SavingsAreKnown
<1>3. UNCHANGED <<payments, rules, questions, updates, disturbed>>
  BY DEF Upload
<1>4. BillsTypeOK'
  <2>1. uploads' \in [Imports -> Uploading \union {Resting}]
    BY <1>1, <1>2 DEF BillsIInv, BillsTypeOK
  <2>2. calls' \in Nat /\ errors' \in Nat
    BY <1>1 DEF Upload, UserCall, Error, NoError, BillsIInv, BillsTypeOK
  <2> QED
    BY <1>3, <2>1, <2>2 DEF BillsIInv, BillsTypeOK, Rows
<1>5. UsersRulesHaveACategory'
  BY <1>3 DEF BillsIInv, UsersRulesHaveACategory, UserRule
<1>6. \A m \in Merchants : InsertsOnlyGo(m)
  BY <1>1 DEF InsertsOnlyGo, InsertsOf, BillsIInv, BillsTypeOK
<1> QED
  BY <1>3, <1>4, <1>5, <1>6, NothingIsMet, Unchanged

\* The import goes on with the next entry, or leaves its questions and rests.
LEMMA NextEntryFacts ==
  ASSUME BillsTypeOK, NEW i \in Imports, NEW upload \in Uploading, NextEntry(i, upload)
  PROVE  /\ uploads' \in [Imports -> Uploading \union {Resting}]
         /\ questions' \in [Imports -> SUBSET Question]
         /\ uploads'[i].at # "insert"
         /\ \A j \in Imports \ {i} : uploads'[j] = uploads[j]
         /\ \A n \in Merchants : InsertsOnlyGo(n)
<1> DEFINE next == [upload EXCEPT !.at = "lookup", !.entry = @ + 1, !.category = Other]
           after == IF upload.entry < Len(Statement) THEN next ELSE Resting
<1>1. uploads' = [uploads EXCEPT ![i] = after]
  BY DEF NextEntry
<1>2. upload.entry < Len(Statement) => next \in Uploading
  BY StatementFacts DEF Uploading, AnyCategory
<1>3. after \in Uploading \union {Resting} /\ after.at # "insert"
  BY <1>2 DEF Uploading, Resting
<1> HIDE DEF after
<1>4. questions' \in [Imports -> SUBSET Question]
  <2>1. UNCHANGED questions \/ questions' = [questions EXCEPT ![i] = @ \union upload.pending]
    BY DEF NextEntry
  <2>2. upload.pending \in SUBSET Question
    BY DEF Uploading
  <2> QED
    BY <2>1, <2>2 DEF BillsTypeOK
<1>5. /\ uploads' \in [Imports -> Uploading \union {Resting}]
      /\ uploads'[i] = after /\ \A j \in Imports \ {i} : uploads'[j] = uploads[j]
  BY <1>1, <1>3 DEF BillsTypeOK
<1>6. \A n \in Merchants : InsertsOnlyGo(n)
  BY <1>3, <1>5 DEF InsertsOnlyGo, InsertsOf
<1> QED
  BY <1>3, <1>4, <1>5, <1>6

LEMMA RoundupStep ==
  ASSUME BillsIInv, SavingsAreKnown, NEW i \in Imports, Roundup(i)
  PROVE  BillsIInv' /\ SavingsAreKnown'
<1> DEFINE upload == uploads[i]
           ibans == {Statement[upload.entry].account} \ {NoAccount}
           learned == [upload EXCEPT !.known = @ \union ibans]
<1>1. /\ upload.at = "lookup" /\ Statement[upload.entry].kind = "roundup"
      /\ (NoError /\ savings' = savings \union ibans) \/ (Error /\ UNCHANGED savings)
      /\ NextEntry(i, learned)
      /\ UNCHANGED <<payments, rules, updates, calls, disturbed>>
  BY DEF Roundup
<1>2. upload \in Uploading /\ upload.entry \in Entries
  BY <1>1, UploadFacts DEF BillsIInv
<1>3. ibans \subseteq SavingsAccounts
  BY <1>1, <1>2 DEF SavingsAccounts
<1>4. learned \in Uploading
  BY <1>2, <1>3 DEF Uploading
<1> HIDE DEF learned, ibans
<1>5. /\ uploads' \in [Imports -> Uploading \union {Resting}] /\ questions' \in [Imports -> SUBSET Question]
      /\ \A n \in Merchants : InsertsOnlyGo(n)
  BY <1>1, <1>4, NextEntryFacts DEF BillsIInv
<1>6. BillsTypeOK'
  BY <1>1, <1>5 DEF BillsIInv, BillsTypeOK, Error, NoError
<1>7. UsersRulesHaveACategory'
  BY <1>1 DEF BillsIInv, UsersRulesHaveACategory, UserRule
<1>8. BillsIInv'
  BY <1>1, <1>5, <1>6, <1>7, NothingIsMet, Unchanged
<1>9. SavingsAreKnown'
  BY <1>1, <1>3 DEF SavingsAreKnown
<1> QED
  BY <1>8, <1>9

LEMMA AnswerStep == ASSUME BillsIInv, NEW i \in Imports, Answer(i) PROVE BillsIInv'
<1> USE DEF BillsIInv
<1> DEFINE first == Min({q.entry : q \in questions[i]})
           asked == {q \in questions[i] : q.entry = first}
<1>1. /\ questions[i] # {} /\ questions' = [questions EXCEPT ![i] = @ \ asked]
      /\ UNCHANGED <<payments, uploads, updates, calls, disturbed>>
      /\ errors' \in Nat
  BY DEF Answer, NoError, Error, BillsTypeOK
<1>2. \/ UNCHANGED rules
      \/ \E category \in AnyCategory : rules' = [rules EXCEPT ![Statement[first].merchant] = Rule(category, "llm")]
  BY DEF Answer, AnyCategory
<1>3. \A category \in AnyCategory : /\ Rule(category, "llm") \in MerchantRule
                                    /\ Rule(category, "llm").source = "llm"
  BY DEF Rule, MerchantRule
<1>4. BillsTypeOK'
  <2>1. rules' \in [Merchants -> MerchantRule \union {NoRow}]
    BY <1>2, <1>3 DEF BillsTypeOK
  <2>2. questions' \in [Imports -> SUBSET Question]
    BY <1>1 DEF BillsTypeOK
  <2> QED
    BY <1>1, <2>1, <2>2 DEF BillsTypeOK
<1>5. \A m \in Merchants : UserRule(m)' => rules'[m] = rules[m]
  BY <1>2, <1>3 DEF UserRule, BillsTypeOK
<1>6. UsersRulesHaveACategory'
  BY <1>5 DEF UsersRulesHaveACategory, UserRule
<1> QED
  BY <1>1, <1>4, <1>5, <1>6, NothingIsMet, Unchanged DEF RuleOnlyGoes

LEMMA DeleteRuleStep == ASSUME BillsIInv, NEW m \in Merchants, DeleteMerchantRule(m) PROVE BillsIInv'
<1> USE DEF BillsIInv
<1>1. /\ rules' = [rules EXCEPT ![m] = NoRow]
      /\ UNCHANGED <<payments, uploads, questions, updates, errors, disturbed>> /\ calls' \in Nat
  BY DEF DeleteMerchantRule, UserCall, BillsTypeOK
<1>2. BillsTypeOK'
  BY <1>1 DEF BillsTypeOK
<1>3. \A n \in Merchants : UserRule(n)' => rules'[n] = rules[n]
  BY <1>1 DEF UserRule, BillsTypeOK
<1>4. UsersRulesHaveACategory'
  BY <1>3 DEF UsersRulesHaveACategory, UserRule
<1> QED
  BY <1>1, <1>2, <1>3, <1>4, NothingIsMet, Unchanged DEF RuleOnlyGoes

LEMMA DeleteTransactionStep == ASSUME BillsIInv, NEW e \in Entries, DeleteBankTransaction(e) PROVE BillsIInv'
<1> USE DEF BillsIInv
<1>1. /\ payments' = [payments EXCEPT ![e] = NoRow]
      /\ UNCHANGED <<rules, uploads, questions, updates, errors, disturbed>> /\ calls' \in Nat
  BY DEF DeleteBankTransaction, UserCall, BillsTypeOK
<1>2. BillsTypeOK'
  BY <1>1 DEF BillsTypeOK
<1>3. \A m \in Merchants : RowsOnlyLeave(m)
  BY <1>1 DEF RowsOnlyLeave, Rows, BillsTypeOK
<1>4. UsersRulesHaveACategory'
  BY <1>1 DEF UsersRulesHaveACategory, UserRule
<1> QED
  BY <1>1, <1>2, <1>3, <1>4, NothingIsMet, Unchanged

\* A step that meets the updates of one merchant, and leaves the others alone.
LEMMA OneMerchantIsMet ==
  ASSUME BillsIInv, BillsTypeOK', UsersRulesHaveACategory', NEW m \in Merchants,
         updates' = Soil(m), disturbed \subseteq disturbed', UpdatesOf(m) # {} => m \in disturbed',
         \A n \in Merchants \ {m} : RowsOnlyLeave(n) /\ RuleOnlyGoes(n) /\ InsertsOnlyGo(n),
         m \notin disturbed' /\ UserRule(m)' =>
             Follow(m)' /\ \A i \in InsertsOf(m)' : InsertFollows(i, m)'
  PROVE  BillsIInv'
<1> USE DEF BillsIInv
<1>1. \A u \in Updates \ UpdatesOf(m) : updates'[u] = updates[u]
  BY SoilFacts
<1>2. \A u \in UpdatesOf(m) : updates'[u] # Resting /\ updates'[u].merchant = m /\ ~updates'[u].clean
  BY SoilFacts
<1>3. \A n \in Merchants : UpdatesOf(n)' = UpdatesOf(n)
  BY <1>1, <1>2 DEF UpdatesOf
<1>4. ASSUME NEW u \in Updates, NEW n \in Merchants, updates'[u] # Resting, updates'[u].merchant = n
      PROVE  IF updates'[u].clean THEN Concerned(n)' = {u} /\ Agrees(updates[u])' ELSE n \in disturbed'
  <2>1. CASE u \in UpdatesOf(m)
    BY <1>2, <1>4, <2>1
  <2>2. CASE u \notin UpdatesOf(m)
    <3>1. updates'[u] = updates[u] /\ n # m
      BY <1>1, <1>4, <2>2 DEF UpdatesOf
    <3> QED
      BY <1>3, <1>4, <3>1, UpdateIsKept
  <2> QED
    BY <2>1, <2>2
<1>5. CleanUpdatesAreAlone'
  BY <1>4, CleanFromEach
<1>6. ASSUME NEW n \in Merchants, n \notin disturbed', UpdatesOf(n)' = {}, UserRule(n)'
      PROVE  Follow(n)' /\ \A i \in InsertsOf(n)' : InsertFollows(i, n)'
  <2>1. CASE n = m
    BY <1>6, <2>1
  <2>2. CASE n # m
    BY <1>3, <1>6, <2>2, QuietIsKept
  <2> QED
    BY <2>1, <2>2
<1>7. QuietMerchantsFollow'
  BY <1>6 DEF QuietMerchantsFollow
<1> QED
  BY <1>5, <1>7

LEMMA LookupStep == ASSUME BillsIInv, NEW i \in Imports, Lookup(i) PROVE BillsIInv'
<1> USE DEF BillsIInv
<1> DEFINE upload == uploads[i]
           account == Statement[upload.entry].account
<1>1. /\ upload.at = "lookup" /\ upload \in Uploading /\ upload.entry \in Entries
      /\ upload.pending \in SUBSET Question /\ upload.known \in SUBSET SavingsAccounts
      /\ UNCHANGED <<payments, rules, questions, calls>>
  BY UploadFacts DEF Lookup
<1>2. PICK m \in Merchants : m = Statement[upload.entry].merchant
  BY <1>1, StatementFacts
<1> DEFINE found(failed) == CategorizeBankTransaction(m, failed)
           category(failed) == IF account \in upload.known THEN Transfer ELSE found(failed)
           question(failed) == [entry |-> upload.entry, ruled |-> UserRule(m), failed |-> failed]
           pending(failed) == upload.pending \union IF category(failed) = Other THEN {question(failed)} ELSE {}
           looked(failed) == [upload EXCEPT !.at = "insert", !.category = category(failed), !.pending = pending(failed)]
<1>3. updates' = Soil(m)
  BY <1>2 DEF Lookup
<1>4. PICK failed \in BOOLEAN :
        /\ IF failed THEN Error ELSE NoError
        /\ uploads' = [uploads EXCEPT ![i] = looked(failed)]
        /\ disturbed' = Overlap(m) \union IF failed THEN {m} ELSE {}
  BY <1>2 DEF Lookup
<1>5. found(failed) \in AnyCategory
  BY <1>2, RuleFacts, BillsAssumption DEF CategorizeBankTransaction, AnyCategory
<1>6. ~failed /\ UserRule(m) => found(failed) = rules[m].category /\ found(failed) \in Categories
  BY <1>2 DEF CategorizeBankTransaction, UserRule, UsersRulesHaveACategory
<1>7. category(failed) \in AnyCategory
  BY <1>5, BillsAssumption DEF AnyCategory
<1>8. category(failed) = Other => question(failed) \in Question
  <2>1. category(failed) = Other => found(failed) = Other
    BY BillsAssumption
  <2>2. category(failed) = Other => (UserRule(m) => failed)
    BY <1>6, <2>1, BillsAssumption
  <2>3. UserRule(m) \in BOOLEAN
    BY DEF UserRule
  <2>4. question(failed) \in [entry : Entries, ruled : BOOLEAN, failed : BOOLEAN]
    BY <1>1, <2>3
  <2>5. question(failed).ruled = UserRule(m) /\ question(failed).failed = failed
    OBVIOUS
  <2> QED
    BY <2>2, <2>4, <2>5, Zenon DEF Question
<1>9. looked(failed) \in Uploading /\ looked(failed).category = category(failed)
      /\ looked(failed).entry = upload.entry /\ looked(failed).at = "insert"
  BY <1>1, <1>7, <1>8 DEF Uploading
<1> HIDE DEF looked, found, question, pending
<1>10. /\ uploads'[i] = looked(failed)
       /\ \A j \in Imports \ {i} : uploads'[j] = uploads[j]
  BY <1>4 DEF BillsTypeOK
<1>11. BillsTypeOK'
  <2>1. uploads' \in [Imports -> Uploading \union {Resting}]
    BY <1>4, <1>9 DEF BillsTypeOK
  <2>2. updates' \in [Updates -> Updating \union {Resting}]
    BY <1>3, SoilFacts
  <2>3. disturbed' \in SUBSET Merchants
    BY <1>4 DEF Overlap, BillsTypeOK
  <2>4. errors' \in Nat
    BY <1>4 DEF Error, NoError, BillsTypeOK
  <2> QED
    BY <1>1, <2>1, <2>2, <2>3, <2>4 DEF BillsTypeOK
<1>12. UsersRulesHaveACategory'
  BY <1>1 DEF UsersRulesHaveACategory, UserRule
<1>13. /\ disturbed \subseteq disturbed' /\ (Concerned(m) # {} => m \in disturbed')
       /\ failed => m \in disturbed'
  BY <1>4 DEF Overlap
<1>14. \A n \in Merchants \ {m} : InsertsOnlyGo(n)
  BY <1>2, <1>9, <1>10 DEF InsertsOnlyGo, InsertsOf
<1>15. ASSUME m \notin disturbed', UserRule(m)'
       PROVE  Follow(m)' /\ \A j \in InsertsOf(m)' : InsertFollows(j, m)'
  <2>1. m \notin disturbed /\ UpdatesOf(m) = {} /\ InsertsOf(m) = {} /\ UserRule(m) /\ ~failed
    BY <1>1, <1>13, <1>15 DEF Concerned, UserRule
  <2>2. Follow(m)
    BY <2>1 DEF QuietMerchantsFollow
  <2>3. Follow(m)'
    BY <1>1, <2>2 DEF Follow, Rows, Transferred
  <2>4. \A j \in InsertsOf(m)' : j = i
    BY <1>10, <2>1 DEF InsertsOf
  <2>5. category(failed) = rules[m].category \/ (category(failed) = Transfer /\ account \in SavingsAccounts)
    BY <1>1, <1>6, <2>1
  <2>6. InsertFollows(i, m)'
    BY <1>1, <1>9, <1>10, <2>5 DEF InsertFollows
  <2> QED
    BY <2>3, <2>4, <2>6
<1>16. UpdatesOf(m) # {} => m \in disturbed'
  BY <1>13 DEF Concerned
<1> QED
  BY <1>1, <1>3, <1>11, <1>12, <1>13, <1>14, <1>15, <1>16, OneMerchantIsMet, Unchanged

LEMMA UpdateExpenseStep == ASSUME BillsIInv, NEW m \in Merchants, UpdateExpense(m) PROVE BillsIInv'
<1> USE DEF BillsIInv
<1>1. PICK category \in Categories : rules' = [rules EXCEPT ![m] = Rule(category, "user")]
  BY DEF UpdateExpense
<1>2. /\ updates' = Soil(m) /\ disturbed' = disturbed \union {m}
      /\ UNCHANGED <<payments, uploads, questions, errors>> /\ calls' \in Nat
  BY DEF UpdateExpense, UserCall, BillsTypeOK
<1>3. Rule(category, "user") \in MerchantRule /\ Rule(category, "user").category = category
  BY DEF Rule, MerchantRule, AnyCategory
<1>4. BillsTypeOK'
  <2>1. rules' \in [Merchants -> MerchantRule \union {NoRow}]
    BY <1>1, <1>3 DEF BillsTypeOK
  <2>2. updates' \in [Updates -> Updating \union {Resting}]
    BY <1>2, SoilFacts
  <2> QED
    BY <1>2, <2>1, <2>2 DEF BillsTypeOK
<1>5. \A n \in Merchants \ {m} : rules'[n] = rules[n]
  BY <1>1 DEF BillsTypeOK
<1>6. UsersRulesHaveACategory'
  BY <1>1, <1>3, <1>5 DEF UsersRulesHaveACategory, UserRule, BillsTypeOK
<1>7. \A n \in Merchants \ {m} : RowsOnlyLeave(n) /\ RuleOnlyGoes(n) /\ InsertsOnlyGo(n)
  BY <1>2, <1>5, Unchanged DEF RuleOnlyGoes
<1> QED
  BY <1>2, <1>4, <1>6, <1>7, OneMerchantIsMet

LEMMA InsertStep == ASSUME BillsIInv, NEW i \in Imports, Insert(i) PROVE BillsIInv'
<1> USE DEF BillsIInv
<1> DEFINE upload == uploads[i]
           e == upload.entry
           row == [merchant |-> Statement[e].merchant, category |-> upload.category]
<1>1. /\ upload.at = "insert" /\ upload \in Uploading /\ e \in Entries
      /\ upload.category \in AnyCategory /\ UNCHANGED <<rules, updates, calls, disturbed>>
  BY UploadFacts DEF Insert
<1>2. PICK m \in Merchants : m = Statement[e].merchant
  BY <1>1, StatementFacts
<1>3. \/ UNCHANGED payments
      \/ e \notin Rows /\ payments' = [payments EXCEPT ![e] = row]
  BY DEF Insert, ImportBankTransaction
<1>4. /\ uploads' \in [Imports -> Uploading \union {Resting}] /\ questions' \in [Imports -> SUBSET Question]
      /\ \A n \in Merchants : InsertsOnlyGo(n)
  BY <1>1, NextEntryFacts DEF Insert
<1>6. row \in Payment /\ row.merchant = m /\ row.category = upload.category
  BY <1>1, <1>2 DEF Payment
<1>8. BillsTypeOK'
  <2>1. payments' \in [Entries -> Payment \union {NoRow}]
    BY <1>3, <1>6 DEF BillsTypeOK
  <2>4. errors' \in Nat
    BY DEF Insert, NoError, Error, BillsTypeOK
  <2> QED
    BY <1>1, <1>4, <2>1, <2>4 DEF BillsTypeOK
<1>9. UsersRulesHaveACategory'
  BY <1>1 DEF UsersRulesHaveACategory, UserRule
<1>10. i \in InsertsOf(m)
  BY <1>1, <1>2 DEF InsertsOf
<1>11. \A n \in Merchants : InsertsOnlyGo(n) /\ RuleOnlyGoes(n) /\ UpdatesOf(n)' = UpdatesOf(n)
  BY <1>1, <1>4, Unchanged DEF UpdatesOf
<1>12. \A d \in Rows' : (d \in Rows /\ payments'[d] = payments[d]) \/ (d = e /\ payments'[d] = row)
  BY <1>3 DEF Rows, BillsTypeOK
<1>13. \A n \in Merchants \ {m} : RowsOnlyLeave(n)
  BY <1>6, <1>12 DEF RowsOnlyLeave
<1>14. ASSUME NEW u \in Updates, NEW n \in Merchants, updates'[u] # Resting, updates'[u].merchant = n
       PROVE  IF updates'[u].clean THEN Concerned(n)' = {u} /\ Agrees(updates[u])' ELSE n \in disturbed'
  <2>1. updates'[u] = updates[u]
    BY <1>1
  <2>2. CASE n = m
    <3>1. ~updates[u].clean
      BY <1>10, <1>14, <2>1, <2>2, BillsAssumption DEF CleanUpdatesAreAlone, Concerned
    <3> QED
      BY <1>1, <1>14, <2>1, <3>1 DEF CleanUpdatesAreAlone
  <2>3. CASE n # m
    BY <1>1, <1>11, <1>13, <1>14, <2>1, <2>3, UpdateIsKept
  <2> QED
    BY <2>2, <2>3
<1>15. CleanUpdatesAreAlone'
  BY <1>8, <1>14, CleanFromEach
<1>16. ASSUME NEW n \in Merchants, n \notin disturbed', UpdatesOf(n)' = {}, UserRule(n)'
       PROVE  Follow(n)' /\ \A j \in InsertsOf(n)' : InsertFollows(j, n)'
  <2>1. n \notin disturbed /\ UpdatesOf(n) = {} /\ UserRule(n) /\ rules'[n] = rules[n]
    BY <1>1, <1>11, <1>16 DEF UserRule
  <2>2. Follow(n) /\ \A j \in InsertsOf(n) : InsertFollows(j, n)
    BY <2>1 DEF QuietMerchantsFollow
  <2>3. n = m => \/ row.category = rules'[n].category
                 \/ row.category = Transfer /\ Statement[e].account \in SavingsAccounts
    BY <1>6, <1>10, <2>1, <2>2 DEF InsertFollows
  <2>4. Follow(n)'
    BY <1>6, <1>12, <2>1, <2>2, <2>3 DEF Follow, Transferred
  <2>5. \A j \in InsertsOf(n)' : InsertFollows(j, n)'
    BY <1>11, <2>1, <2>2 DEF InsertsOnlyGo, InsertFollows
  <2> QED
    BY <2>4, <2>5
<1>17. QuietMerchantsFollow'
  BY <1>16 DEF QuietMerchantsFollow
<1> QED
  BY <1>8, <1>9, <1>15, <1>17

LEMMA UpdateTransactionStep ==
  ASSUME BillsIInv, NEW u \in Updates, UpdateBankTransaction(u) PROVE BillsIInv'
<1> USE DEF BillsIInv
<1>1. PICK e \in Rows, m \in Merchants, category \in AnyCategory :
        /\ payments' = [payments EXCEPT ![e] = [merchant |-> m, category |-> category]]
        /\ IF category = Other
           THEN updates' = Soil(m) /\ disturbed' = disturbed \union {m}
           ELSE /\ updates' = [Soil(m) EXCEPT ![u] =
                       [at |-> "rule", entry |-> e, merchant |-> m, category |-> category,
                        ids |-> {}, clean |-> Concerned(m) = {}]]
                /\ disturbed' = Overlap(m)
  BY DEF UpdateBankTransaction, AnyCategory
<1>2. /\ updates[u] = Resting /\ UNCHANGED <<rules, uploads, questions, errors>> /\ calls' \in Nat
  BY DEF UpdateBankTransaction, UserCall, BillsTypeOK
<1> DEFINE row == [merchant |-> m, category |-> category]
           new == [at |-> "rule", entry |-> e, merchant |-> m, category |-> category,
                   ids |-> {}, clean |-> Concerned(m) = {}]
<1>3. row \in Payment /\ row.merchant = m /\ row.category = category /\ e \in Entries
  BY <1>1, RowFacts DEF Payment
<1>4. payments' \in [Entries -> Payment \union {NoRow}] /\ payments'[e] = row
  BY <1>1, <1>3 DEF BillsTypeOK
<1>5. disturbed' \in SUBSET Merchants /\ disturbed \subseteq disturbed' /\ (Concerned(m) # {} => m \in disturbed')
  BY <1>1 DEF Overlap, BillsTypeOK
<1>6. \A n \in Merchants \ {m} : RowsOnlyLeave(n) /\ RuleOnlyGoes(n) /\ InsertsOnlyGo(n)
  BY <1>1, <1>2, <1>3, Unchanged DEF RowsOnlyLeave, Rows, BillsTypeOK
<1>7. UsersRulesHaveACategory'
  BY <1>2 DEF UsersRulesHaveACategory, UserRule
<1>8. CASE category = Other
  <2>1. updates' = Soil(m) /\ m \in disturbed'
    BY <1>1, <1>8
  <2>2. BillsTypeOK'
    BY <1>2, <1>4, <1>5, <2>1, SoilFacts DEF BillsTypeOK
  <2> QED
    BY <1>5, <1>6, <1>7, <2>1, <2>2, OneMerchantIsMet
<1>9. CASE category # Other
  <2>1. new \in Updating /\ new.merchant = m /\ new # Resting
    <3>1. (Concerned(m) = {}) \in BOOLEAN
      OBVIOUS
    <3>2. category \in Categories
      BY <1>9 DEF AnyCategory
    <3> QED
      BY <1>3, <3>1, <3>2 DEF Updating, Resting
  <2>2. updates' = [Soil(m) EXCEPT ![u] = new]
    BY <1>1, <1>9
  <2>3. updates' \in [Updates -> Updating \union {Resting}]
    BY <2>1, <2>2, SoilFacts
  <2>4. BillsTypeOK'
    BY <1>2, <1>4, <1>5, <2>3 DEF BillsTypeOK
  <2>5. /\ updates'[u] = new /\ u \notin UpdatesOf(m)
        /\ \A v \in Updates \ {u} : updates'[v] = Soil(m)[v]
    BY <1>2, <2>2, SoilFacts DEF UpdatesOf
  <2>6. \A v \in UpdatesOf(m) : updates'[v] # Resting /\ updates'[v].merchant = m /\ ~updates'[v].clean
    BY <2>5, SoilFacts DEF UpdatesOf
  <2>7. \A v \in Updates \ (UpdatesOf(m) \union {u}) : updates'[v] = updates[v]
    BY <2>5, SoilFacts
  <2>8. \A n \in Merchants \ {m} : UpdatesOf(n)' \subseteq UpdatesOf(n)
    BY <2>1, <2>5, <2>6, <2>7 DEF UpdatesOf
  <2>9. UpdatesOf(m)' = UpdatesOf(m) \union {u}
    BY <2>1, <2>5, <2>6, <2>7 DEF UpdatesOf
  <2>10. ASSUME NEW v \in Updates, NEW n \in Merchants, updates'[v] # Resting, updates'[v].merchant = n
         PROVE  IF updates'[v].clean THEN Concerned(n)' = {v} /\ Agrees(updates[v])' ELSE n \in disturbed'
    <3>1. CASE v = u
      <4>1. n = m /\ updates'[v] = new
        BY <2>1, <2>5, <2>10, <3>1
      <4>4. new.clean = (Concerned(m) = {})
        OBVIOUS
      <4>5. updates'[v].clean = (Concerned(m) = {})
        BY <4>1, <4>4, Zenon
      <4>2. CASE Concerned(m) = {}
        <5>1. UpdatesOf(m)' = {u} /\ InsertsOf(m)' = {}
          BY <1>2, <2>9, <4>2 DEF Concerned, InsertsOf
        <5>2. Concerned(n)' = {u}
          BY <4>1, <5>1 DEF Concerned
        <5>3. updates'[u].at = "rule" /\ updates'[u].entry = e /\ updates'[u].category = category
          BY <2>5
        <5>4. Agrees(updates[u])'
          BY <1>3, <1>4, <5>3 DEF Agrees
        <5>5. updates'[v].clean
          BY <4>2, <4>5
        <5> QED
          BY <3>1, <5>2, <5>4, <5>5
      <4>3. CASE Concerned(m) # {}
        <5>1. ~updates'[v].clean
          BY <4>3, <4>5
        <5> QED
          BY <1>5, <4>1, <4>3, <5>1
      <4> QED
        BY <4>2, <4>3
    <3>2. CASE v \in UpdatesOf(m)
      <4>1. n = m /\ ~updates'[v].clean /\ Concerned(m) # {}
        BY <2>6, <2>10, <3>2 DEF Concerned
      <4> QED
        BY <1>5, <4>1
    <3>3. CASE v \notin UpdatesOf(m) /\ v # u
      <4>1. updates'[v] = updates[v] /\ n # m
        BY <2>7, <2>10, <3>3 DEF UpdatesOf
      <4> QED
        BY <1>5, <1>6, <2>8, <2>10, <4>1, UpdateIsKept
    <3> QED
      BY <3>1, <3>2, <3>3
  <2>11. CleanUpdatesAreAlone'
    BY <2>4, <2>10, CleanFromEach
  <2>12. ASSUME NEW n \in Merchants, n \notin disturbed', UpdatesOf(n)' = {}, UserRule(n)'
         PROVE  Follow(n)' /\ \A j \in InsertsOf(n)' : InsertFollows(j, n)'
    <3>1. n # m
      BY <2>9, <2>12
    <3>2. UpdatesOf(n) = {}
      BY <2>7, <2>12, <3>1, <1>2 DEF UpdatesOf
    <3> QED
      BY <1>5, <1>6, <2>12, <3>1, <3>2, QuietIsKept
  <2>13. QuietMerchantsFollow'
    BY <2>12 DEF QuietMerchantsFollow
  <2> QED
    BY <1>7, <2>4, <2>11, <2>13
<1> QED
  BY <1>8, <1>9

\* A step of one update that stays with its merchant.
LEMMA OneUpdateSteps ==
  ASSUME BillsIInv, BillsTypeOK', UsersRulesHaveACategory', NEW u \in Updates, NEW m \in Merchants,
         updates[u] # Resting, updates[u].merchant = m, UNCHANGED <<payments, uploads>>,
         \A v \in Updates \ {u} : updates'[v] = updates[v],
         disturbed \subseteq disturbed',
         \A n \in Merchants \ {m} : RuleOnlyGoes(n),
         updates'[u] = Resting => m \in disturbed',
         updates'[u] # Resting =>
             /\ updates'[u].merchant = m
             /\ IF updates'[u].clean THEN updates[u].clean /\ Agrees(updates[u])' ELSE m \in disturbed'
  PROVE  BillsIInv'
<1> USE DEF BillsIInv
<1>1. \A n \in Merchants : UpdatesOf(n)' \subseteq UpdatesOf(n)
  BY DEF UpdatesOf
<1>2. \A n \in Merchants : RowsOnlyLeave(n) /\ InsertsOnlyGo(n)
  BY Unchanged
<1>3. ASSUME NEW v \in Updates, NEW n \in Merchants, updates'[v] # Resting, updates'[v].merchant = n
      PROVE  IF updates'[v].clean THEN Concerned(n)' = {v} /\ Agrees(updates[v])' ELSE n \in disturbed'
  <2>1. CASE v = u
    <3>1. n = m
      BY <1>3, <2>1
    <3>2. CASE updates'[u].clean
      <4>1. updates[u].clean /\ Agrees(updates[u])'
        BY <1>3, <2>1, <3>2
      <4>2. Concerned(m) = {u}
        BY <4>1 DEF CleanUpdatesAreAlone
      <4>3. u \in UpdatesOf(m)'
        BY <1>3, <2>1, <3>1 DEF UpdatesOf
      <4>4. Concerned(m)' = {u}
        BY <1>1, <1>2, <4>2, <4>3 DEF Concerned, InsertsOnlyGo
      <4> QED
        BY <2>1, <3>1, <3>2, <4>1, <4>4
    <3>3. CASE ~updates'[u].clean
      BY <1>3, <2>1, <3>1, <3>3
    <3> QED
      BY <3>2, <3>3
  <2>2. CASE v # u /\ n # m
    BY <1>1, <1>2, <1>3, <2>2, UpdateIsKept
  <2>3. CASE v # u /\ n = m
    <3>1. updates'[v] = updates[v]
      BY <2>3
    <3>2. u \in UpdatesOf(m)
      BY DEF UpdatesOf
    <3>3. ~updates[v].clean
      BY <1>3, <2>3, <3>1, <3>2 DEF CleanUpdatesAreAlone, Concerned
    <3>4. m \in disturbed
      BY <1>3, <2>3, <3>1, <3>3 DEF CleanUpdatesAreAlone
    <3> QED
      BY <2>3, <3>1, <3>3, <3>4
  <2> QED
    BY <2>1, <2>2, <2>3
<1>4. CleanUpdatesAreAlone'
  BY <1>3, CleanFromEach
<1>5. ASSUME NEW n \in Merchants, n \notin disturbed', UpdatesOf(n)' = {}, UserRule(n)'
      PROVE  Follow(n)' /\ \A j \in InsertsOf(n)' : InsertFollows(j, n)'
  <2>1. n # m
    BY <1>5 DEF UpdatesOf
  <2>2. UpdatesOf(n) = {}
    BY <1>5, <2>1 DEF UpdatesOf
  <2> QED
    BY <1>2, <1>5, <2>1, <2>2, QuietIsKept
<1>6. QuietMerchantsFollow'
  BY <1>5 DEF QuietMerchantsFollow
<1> QED
  BY <1>4, <1>6

LEMMA FailsStep ==
  ASSUME BillsIInv, NEW u \in Updates, updates[u] # Resting, Fails(u), UNCHANGED <<uploads, questions, calls>>
  PROVE  BillsIInv'
<1> USE DEF BillsIInv
<1>1. /\ updates' = [updates EXCEPT ![u] = Resting] /\ disturbed' = disturbed \union {updates[u].merchant}
      /\ UNCHANGED <<payments, rules>> /\ errors' \in Nat
  BY DEF Fails, Error, BillsTypeOK
<1>2. PICK m \in Merchants : m = updates[u].merchant
  BY UpdateFacts, UpdatingFacts
<1>3. BillsTypeOK'
  BY <1>1, <1>2 DEF BillsTypeOK
<1>4. UsersRulesHaveACategory'
  BY <1>1 DEF UsersRulesHaveACategory, UserRule
<1>5. updates'[u] = Resting /\ \A v \in Updates \ {u} : updates'[v] = updates[v]
  BY <1>1 DEF BillsTypeOK
<1> QED
  BY <1>1, <1>2, <1>3, <1>4, <1>5, OneUpdateSteps, Unchanged

LEMMA SaveRuleStep ==
  ASSUME BillsIInv, NEW u \in Updates, SaveUserMerchantCategory(u) PROVE BillsIInv'
<1> USE DEF BillsIInv
<1> DEFINE update == updates[u]
           rule == Rule(update.category, "user")
<1>1. update.at = "rule" /\ update # Resting /\ update \in Updating /\ UNCHANGED <<payments, uploads, questions, calls>>
  BY UpdateFacts DEF SaveUserMerchantCategory
<1>2. PICK m \in Merchants : m = update.merchant
  BY <1>1, UpdatingFacts
<1>3. errors' \in Nat
  BY DEF SaveUserMerchantCategory, NoError, Error, BillsTypeOK
<1>4. CASE rules' = [rules EXCEPT ![m] = rule] /\ updates' = [updates EXCEPT ![u].at = "select"] /\ UNCHANGED disturbed
  <2>1. rule \in MerchantRule /\ rule.category = update.category /\ update.category \in Categories
    BY <1>1, UpdatingFacts DEF Rule, MerchantRule, AnyCategory
  <2>2. /\ updates'[u] \in Updating /\ updates'[u].merchant = m /\ updates'[u].at = "select"
        /\ updates'[u].entry = update.entry /\ updates'[u].category = update.category
        /\ updates'[u].clean = update.clean
    BY <1>1, <1>2, <1>4 DEF BillsTypeOK, Updating
  <2>3. \A v \in Updates \ {u} : updates'[v] = updates[v]
    BY <1>4 DEF BillsTypeOK
  <2>4. BillsTypeOK'
    <3>1. rules' \in [Merchants -> MerchantRule \union {NoRow}]
      BY <1>4, <2>1 DEF BillsTypeOK
    <3>2. updates' \in [Updates -> Updating \union {Resting}]
      BY <1>4, <2>2, <2>3 DEF BillsTypeOK
    <3> QED
      BY <1>1, <1>3, <1>4, <3>1, <3>2 DEF BillsTypeOK
  <2>5. rules'[m] = rule /\ \A n \in Merchants \ {m} : rules'[n] = rules[n]
    BY <1>4 DEF BillsTypeOK
  <2>6. UsersRulesHaveACategory'
    BY <2>1, <2>5 DEF UsersRulesHaveACategory, UserRule
  <2>7. IF updates'[u].clean THEN updates[u].clean /\ Agrees(updates[u])' ELSE m \in disturbed'
    <3>1. CASE update.clean
      <4>1. Agrees(update)
        BY <1>1, <3>1 DEF CleanUpdatesAreAlone
      <4>2. Agrees(updates[u])'
        BY <1>1, <1>2, <2>1, <2>2, <2>5, <4>1 DEF Agrees, Rows
      <4> QED
        BY <2>2, <3>1, <4>2
    <3>2. CASE ~update.clean
      BY <1>1, <1>2, <1>4, <2>2, <3>2 DEF CleanUpdatesAreAlone
    <3> QED
      BY <3>1, <3>2
  <2> QED
    BY <1>1, <1>2, <1>4, <2>2, <2>3, <2>4, <2>5, <2>6, <2>7, UpdatingFacts, OneUpdateSteps DEF RuleOnlyGoes
<1>5. CASE /\ UNCHANGED rules /\ updates' = [updates EXCEPT ![u].at = "select", ![u].clean = FALSE]
           /\ disturbed' = disturbed \union {m}
  <2>1. updates'[u] \in Updating /\ updates'[u].merchant = m /\ ~updates'[u].clean
    BY <1>1, <1>2, <1>5 DEF BillsTypeOK, Updating
  <2>2. \A v \in Updates \ {u} : updates'[v] = updates[v]
    BY <1>5 DEF BillsTypeOK
  <2>3. BillsTypeOK'
    <3>1. updates' \in [Updates -> Updating \union {Resting}]
      BY <1>5, <2>1, <2>2 DEF BillsTypeOK
    <3> QED
      BY <1>1, <1>3, <1>5, <3>1 DEF BillsTypeOK
  <2>4. UsersRulesHaveACategory'
    BY <1>5 DEF UsersRulesHaveACategory, UserRule
  <2> QED
    BY <1>1, <1>2, <1>5, <2>1, <2>2, <2>3, <2>4, UpdatingFacts, OneUpdateSteps, Unchanged
<1> QED
  BY <1>2, <1>4, <1>5 DEF SaveUserMerchantCategory

LEMMA SelectStep == ASSUME BillsIInv, NEW u \in Updates, Select(u) PROVE BillsIInv'
<1> USE DEF BillsIInv
<1> DEFINE update == updates[u]
<1>1. update.at = "select" /\ update # Resting /\ update \in Updating /\ UNCHANGED <<uploads, questions, calls>>
  BY UpdateFacts DEF Select
<1>2. PICK m \in Merchants : m = update.merchant
  BY <1>1, UpdatingFacts
<1>3. CASE Fails(u)
  BY <1>1, <1>3, FailsStep
<1>4. ASSUME NEW found \in SUBSET Matching(update),
             updates' = [updates EXCEPT ![u].at = "apply", ![u].ids = found,
                                        ![u].clean = @ /\ found = Matching(update)],
             IF found = Matching(update)
             THEN NoError /\ UNCHANGED disturbed
             ELSE Error /\ disturbed' = disturbed \union {update.merchant},
             UNCHANGED <<payments, rules>>
      PROVE  BillsIInv'
  <2>1. found \in SUBSET Entries
    BY DEF Matching, Rows
  <2>0. (update.clean /\ found = Matching(update)) \in BOOLEAN
    BY <1>1, UpdatingFacts
  <2>2. /\ updates'[u] \in Updating /\ updates'[u].merchant = m /\ updates'[u].at = "apply"
        /\ updates'[u].entry = update.entry /\ updates'[u].category = update.category
        /\ updates'[u].clean = (update.clean /\ found = Matching(update)) /\ updates'[u].ids = found
    BY <1>1, <1>2, <1>4, <2>0, <2>1 DEF BillsTypeOK, Updating
  <2>3. \A v \in Updates \ {u} : updates'[v] = updates[v]
    BY <1>4 DEF BillsTypeOK
  <2>4. BillsTypeOK'
    <3>1. updates' \in [Updates -> Updating \union {Resting}]
      BY <1>4, <2>2, <2>3 DEF BillsTypeOK
    <3>2. disturbed' \in SUBSET Merchants /\ errors' \in Nat
      BY <1>2, <1>4 DEF BillsTypeOK, NoError, Error
    <3> QED
      BY <1>1, <1>4, <3>1, <3>2 DEF BillsTypeOK
  <2>5. UsersRulesHaveACategory'
    BY <1>4 DEF UsersRulesHaveACategory, UserRule
  <2>6. IF updates'[u].clean THEN updates[u].clean /\ Agrees(updates[u])' ELSE m \in disturbed'
    <3>1. CASE update.clean /\ found = Matching(update)
      <4>1. Agrees(update)
        BY <1>1, <3>1 DEF CleanUpdatesAreAlone
      <4>2. \A e \in Rows' : payments'[e].merchant = m => e = update.entry \/ e \in Matching(update)
        BY <1>2, <1>4 DEF Matching, Rows
      <4>3. Agrees(updates[u])'
        BY <1>1, <1>2, <1>4, <2>2, <3>1, <4>1, <4>2 DEF Agrees, Rows, UserRule
      <4> QED
        BY <2>2, <3>1, <4>3
    <3>2. CASE found # Matching(update)
      BY <1>2, <1>4, <2>2, <3>2
    <3>3. CASE ~update.clean /\ found = Matching(update)
      <4>1. m \in disturbed
        BY <1>1, <1>2, <3>3 DEF CleanUpdatesAreAlone
      <4> QED
        BY <1>4, <2>2, <3>3, <4>1
    <3> QED
      BY <3>1, <3>2, <3>3
  <2> QED
    BY <1>1, <1>2, <1>4, <2>2, <2>3, <2>4, <2>5, <2>6, UpdatingFacts, OneUpdateSteps, Unchanged
<1> QED
  BY <1>3, <1>4 DEF Select

LEMMA RestartBillsStep == ASSUME BillsIInv, RestartBills PROVE BillsIInv'
<1> USE DEF BillsIInv
<1>1. /\ uploads' = [i \in Imports |-> Resting] /\ questions' = [i \in Imports |-> {}]
      /\ updates' = [u \in Updates |-> Resting]
      /\ disturbed' = disturbed \union {m \in Merchants : UpdatesOf(m) # {}}
      /\ UNCHANGED <<payments, rules, calls>> /\ errors' \in Nat
  BY DEF RestartBills, Error, BillsTypeOK
<1>2. BillsTypeOK'
  BY <1>1 DEF BillsTypeOK
<1>3. UsersRulesHaveACategory'
  BY <1>1 DEF UsersRulesHaveACategory, UserRule
<1>4. CleanUpdatesAreAlone'
  BY <1>1 DEF CleanUpdatesAreAlone
<1>5. \A m \in Merchants : InsertsOnlyGo(m)
  BY <1>1 DEF InsertsOnlyGo, InsertsOf, Resting
<1>6. QuietMerchantsFollow'
  BY <1>1, <1>5, QuietIsKept, Unchanged DEF QuietMerchantsFollow
<1> QED
  BY <1>2, <1>3, <1>4, <1>6

LEMMA RecategorizeStep == ASSUME BillsIInv, NEW u \in Updates, Recategorize(u) PROVE BillsIInv'
<1> USE DEF BillsIInv
<1> DEFINE update == updates[u]
           found == update.ids \intersect Rows
           moved == {payments[e].merchant : e \in found} \ {update.merchant}
<1>1. update.at = "apply" /\ update # Resting /\ update \in Updating /\ UNCHANGED <<uploads, questions, calls>>
  BY UpdateFacts DEF Recategorize
<1>2. PICK m \in Merchants : m = update.merchant
  BY <1>1, UpdatingFacts
<1>3. CASE Fails(u)
  BY <1>1, <1>3, FailsStep
<1>4. CASE ~Fails(u)
  <2>1. /\ payments' = [e \in Entries |->
               IF e \in found THEN [payments[e] EXCEPT !.category = update.category] ELSE payments[e]]
        /\ updates' = [v \in Updates |->
               IF v = u THEN Resting
               ELSE IF updates[v] # Resting /\ updates[v].merchant \in moved THEN [updates[v] EXCEPT !.clean = FALSE]
               ELSE updates[v]]
        /\ disturbed' = (IF update.clean THEN disturbed \ {update.merchant} ELSE disturbed) \union moved
        /\ UNCHANGED rules /\ NoError
    BY <1>4 DEF Recategorize
  <2>2. moved \subseteq Merchants /\ m \notin moved
    BY <1>2, RowFacts
  <2>3. \A e \in found : /\ payments'[e] \in Payment /\ payments'[e].merchant = payments[e].merchant
                         /\ payments'[e].category = update.category
    BY <1>1, <2>1, RowFacts, UpdatingFacts DEF Payment, AnyCategory
  <2>4. \A e \in Entries \ found : payments'[e] = payments[e]
    BY <2>1
  <2>5. payments' \in [Entries -> Payment \union {NoRow}]
    BY <2>1, <2>3, <2>4 DEF BillsTypeOK
  <2>6. Rows' = Rows
    BY <2>3, <2>4, NoRowIsNone DEF Rows
  <2>7. \A v \in Updates : updates[v] # Resting /\ updates[v].merchant \in moved /\ v # u =>
            updates'[v] \in Updating /\ updates'[v].merchant = updates[v].merchant /\ ~updates'[v].clean
    <3> SUFFICES ASSUME NEW v \in Updates, updates[v] # Resting, updates[v].merchant \in moved, v # u
                 PROVE  /\ updates'[v] \in Updating /\ updates'[v].merchant = updates[v].merchant
                        /\ ~updates'[v].clean
      OBVIOUS
    <3>1. updates'[v] = [updates[v] EXCEPT !.clean = FALSE] /\ updates[v] \in Updating
      BY <2>1, UpdateFacts
    <3> QED
      BY <3>1 DEF Updating
  <2>8. \A v \in Updates : (updates[v] = Resting \/ updates[v].merchant \notin moved) /\ v # u =>
            updates'[v] = updates[v]
    BY <2>1
  <2>9. updates'[u] = Resting
    BY <2>1
  <2>10. \A v \in Updates : updates'[v] \in Updating \union {Resting}
    BY <2>7, <2>8, <2>9, UpdateFacts
  <2>11. BillsTypeOK'
    <3>1. updates' \in [Updates -> Updating \union {Resting}]
      BY <2>1, <2>10
    <3>2. disturbed' \in SUBSET Merchants
      BY <2>1, <2>2 DEF BillsTypeOK
    <3>3. errors' \in Nat
      BY <2>1 DEF NoError, BillsTypeOK
    <3> QED
      BY <1>1, <2>1, <2>5, <3>1, <3>2, <3>3 DEF BillsTypeOK
  <2>12. UsersRulesHaveACategory'
    BY <2>1 DEF UsersRulesHaveACategory, UserRule
  <2>13. \A n \in Merchants \ (moved \union {m}) : RowsOnlyLeave(n)
    BY <1>2, <2>3, <2>4, <2>6, RowFacts DEF RowsOnlyLeave
  <2>14. \A n \in Merchants : RuleOnlyGoes(n) /\ InsertsOnlyGo(n)
    BY <1>1, <2>1, Unchanged
  <2>15. \A n \in Merchants : UpdatesOf(n)' = UpdatesOf(n) \ {u}
    <3>1. \A v \in Updates \ {u} : /\ updates'[v] = Resting <=> updates[v] = Resting
                                   /\ updates[v] # Resting => updates'[v].merchant = updates[v].merchant
      BY <2>7, <2>8, UpdatingFacts
    <3> QED
      BY <2>9, <3>1 DEF UpdatesOf
  <2>16. u \in UpdatesOf(m) /\ ~(u \in Imports)
    BY <1>1, <1>2, BillsAssumption DEF UpdatesOf
  <2>17. ASSUME NEW v \in Updates, NEW n \in Merchants, updates'[v] # Resting, updates'[v].merchant = n
         PROVE  IF updates'[v].clean THEN Concerned(n)' = {v} /\ Agrees(updates[v])' ELSE n \in disturbed'
    <3>1. v # u /\ v \in UpdatesOf(n)
      BY <2>9, <2>15, <2>17 DEF UpdatesOf
    <3>2. CASE n \in moved
      BY <2>1, <2>7, <2>17, <3>1, <3>2 DEF UpdatesOf
    <3>3. CASE n = m
      <4>1. updates'[v] = updates[v]
        BY <2>2, <2>8, <3>1, <3>3 DEF UpdatesOf
      <4>2. ~updates[v].clean /\ ~update.clean
        BY <1>1, <1>2, <2>16, <2>17, <3>1, <3>3, <4>1 DEF CleanUpdatesAreAlone, Concerned
      <4>3. m \in disturbed
        BY <1>1, <1>2, <4>2 DEF CleanUpdatesAreAlone
      <4> QED
        BY <2>1, <3>3, <4>1, <4>2, <4>3
    <3>4. CASE n \notin moved \union {m}
      <4>1. updates'[v] = updates[v] /\ updates[v].merchant = n /\ updates[v] # Resting
        BY <2>8, <2>17, <3>1, <3>4 DEF UpdatesOf
      <4>2. n \in disturbed => n \in disturbed'
        BY <1>2, <2>1, <3>4
      <4> QED
        BY <2>13, <2>14, <2>15, <3>4, <4>1, <4>2, UpdateIsKept
    <3> QED
      BY <3>2, <3>3, <3>4
  <2>18. CleanUpdatesAreAlone'
    BY <2>11, <2>17, CleanFromEach
  <2>19. ASSUME NEW n \in Merchants, n \notin disturbed', UpdatesOf(n)' = {}, UserRule(n)'
         PROVE  Follow(n)' /\ \A j \in InsertsOf(n)' : InsertFollows(j, n)'
    <3>1. n \notin moved
      BY <2>1, <2>19
    <3>2. CASE n = m
      <4>1. update.clean
        BY <1>1, <1>2, <2>1, <2>19, <3>2 DEF CleanUpdatesAreAlone
      <4>2. Concerned(m) = {u} /\ Agrees(update)
        BY <1>1, <1>2, <4>1 DEF CleanUpdatesAreAlone
      <4>3. UserRule(m) /\ rules' = rules
        BY <2>1, <2>19, <3>2 DEF UserRule
      <4>4. rules'[m].category = update.category
        BY <1>1, <1>2, <4>2, <4>3 DEF Agrees
      <4>5. \A e \in Rows : payments[e].merchant = m => e \in found \/ payments[e].category = update.category
        BY <1>1, <1>2, <4>2 DEF Agrees
      <4>6. Follow(m)'
        BY <2>3, <2>4, <2>6, <4>4, <4>5, RowFacts DEF Follow
      <4>7. InsertsOf(m)' = {}
        BY <1>1, <2>16, <4>2 DEF Concerned, InsertsOf
      <4> QED
        BY <3>2, <4>6, <4>7
    <3>3. CASE n # m
      <4>1. UpdatesOf(n) = {} /\ n \notin disturbed
        BY <1>2, <2>1, <2>15, <2>19, <3>3 DEF UpdatesOf
      <4> QED
        BY <2>13, <2>14, <2>19, <3>1, <3>3, <4>1, QuietIsKept
    <3> QED
      BY <3>2, <3>3
  <2>20. QuietMerchantsFollow'
    BY <2>19 DEF QuietMerchantsFollow
  <2> QED
    BY <2>11, <2>12, <2>18, <2>20
<1> QED
  BY <1>3, <1>4

LEMMA StutterBills == ASSUME BillsIInv, UNCHANGED billVars PROVE BillsIInv'
<1>1. UNCHANGED <<payments, rules, uploads, questions, updates, calls, errors, disturbed>>
  BY DEF billVars
<1>2. BillsTypeOK'
  BY <1>1 DEF BillsIInv, BillsTypeOK
<1>3. UsersRulesHaveACategory'
  BY <1>1 DEF BillsIInv, UsersRulesHaveACategory, UserRule
<1> QED
  BY <1>1, <1>2, <1>3, NothingIsMet, Unchanged

LEMMA NextBillsIInv == BillsIInv /\ SavingsAreKnown /\ [BillsNext]_billVars => BillsIInv' /\ SavingsAreKnown'
<1> SUFFICES ASSUME BillsIInv, SavingsAreKnown, [BillsNext]_billVars PROVE BillsIInv' /\ SavingsAreKnown'
  OBVIOUS
<1>1. ASSUME NEW i \in Imports, Roundup(i) PROVE BillsIInv' /\ SavingsAreKnown'
  BY <1>1, RoundupStep
<1>2. ASSUME NEW i \in Imports, Upload(i) \/ Lookup(i) \/ Insert(i) \/ Answer(i)
      PROVE  BillsIInv' /\ UNCHANGED savings
  <2>1. BillsIInv'
    BY <1>2, UploadStep, LookupStep, InsertStep, AnswerStep
  <2> QED
    BY <1>2, <2>1 DEF Upload, Lookup, Insert, Answer
<1>3. ASSUME NEW u \in Updates,
             UpdateBankTransaction(u) \/ SaveUserMerchantCategory(u) \/ Select(u) \/ Recategorize(u)
      PROVE  BillsIInv' /\ UNCHANGED savings
  <2>1. BillsIInv'
    BY <1>3, UpdateTransactionStep, SaveRuleStep, SelectStep, RecategorizeStep
  <2> QED
    BY <1>3, <2>1 DEF UpdateBankTransaction, SaveUserMerchantCategory, Select, Recategorize
<1>4. ASSUME NEW m \in Merchants, UpdateExpense(m) \/ DeleteMerchantRule(m)
      PROVE  BillsIInv' /\ UNCHANGED savings
  <2>1. BillsIInv'
    BY <1>4, UpdateExpenseStep, DeleteRuleStep
  <2> QED
    BY <1>4, <2>1 DEF UpdateExpense, DeleteMerchantRule
<1>5. ASSUME NEW e \in Entries, DeleteBankTransaction(e) PROVE BillsIInv' /\ UNCHANGED savings
  <2>1. BillsIInv'
    BY <1>5, DeleteTransactionStep
  <2> QED
    BY <1>5, <2>1 DEF DeleteBankTransaction
<1>6. CASE RestartBills \/ UNCHANGED billVars
  <2>1. BillsIInv'
    BY <1>6, RestartBillsStep, StutterBills
  <2> QED
    BY <1>6, <2>1 DEF RestartBills, billVars, SavingsAreKnown
<1> QED
  BY <1>1, <1>2, <1>3, <1>4, <1>5, <1>6 DEF BillsNext, SavingsAreKnown

LEMMA BillsInvariance == BillsSpec => [](BillsIInv /\ SavingsAreKnown)
<1>1. BillsInit => BillsIInv /\ SavingsAreKnown
  BY InitBillsIInv DEF BillsInit, SavingsAreKnown
<1> QED
  BY <1>1, NextBillsIInv, PTL DEF BillsSpec

\* The inductive invariant holds in every reachable state: what an update has read of its
\* merchant is still so at each of its statements, unless another request has met it
\* (src/main.go, the update of a bank transaction and recategorizeMatching).
THEOREM BillsInvariant == BillsSpec => []BillsIInv
BY BillsInvariance, PTL

\* PaymentsFollowTheUsersRule in every reachable state, for any statement and any number
\* of imports and updates: the payments of a merchant follow the user's rule, but for
\* transfers to savings accounts (src/main.go, importBankXML).
THEOREM PaymentsFollow == BillsSpec => []PaymentsFollowTheUsersRule
<1>1. BillsIInv => PaymentsFollowTheUsersRule
  BY DEF BillsIInv, QuietMerchantsFollow, Follow, Concerned, PaymentsFollowTheUsersRule
<1> QED
  BY <1>1, BillsInvariant, PTL

Less == {pair \in Nat \X Nat : pair[1] < pair[2]}

LEMMA LessIsWellFounded == IsWellFoundedOn(Less, Nat)
BY NatLessThanWellFounded DEF OpToRel, Less

LEMMA MinIsInTheSet == ASSUME NEW S \in SUBSET Nat, S # {} PROVE Min(S) \in S
<1>1. PICK x \in S : \A y \in S : ~(<<y, x>> \in Less)
  BY LessIsWellFounded, WFMin
<1>2. ASSUME NEW y \in S PROVE x <= y
  <2>1. <<y, x>> \in Nat \X Nat /\ <<y, x>>[1] = y /\ <<y, x>>[2] = x
    OBVIOUS
  <2>2. ~(y < x)
    BY <1>1, <2>1 DEF Less
  <2> QED
    BY <2>2
<1> QED
  BY <1>2 DEF Min

\* No import and no answer changes a payment that is there.
LEMMA ImportsKeepPayments ==
  ASSUME BillsIInv, [BillsNext]_billVars, <<uploads, questions>>' # <<uploads, questions>>, NEW e \in Rows
  PROVE  payments'[e] = payments[e]
<1>1. ASSUME NEW i \in Imports, Insert(i) PROVE payments'[e] = payments[e]
  BY <1>1 DEF Insert, ImportBankTransaction, BillsIInv, BillsTypeOK, Rows
<1>2. ASSUME NEW i \in Imports, Upload(i) \/ Roundup(i) \/ Lookup(i) \/ Answer(i) PROVE UNCHANGED payments
  BY <1>2 DEF Upload, Roundup, Lookup, Answer
<1>3. ASSUME NEW u \in Updates,
             UpdateBankTransaction(u) \/ SaveUserMerchantCategory(u) \/ Select(u) \/ Recategorize(u)
      PROVE  UNCHANGED <<uploads, questions>>
  BY <1>3 DEF UpdateBankTransaction, SaveUserMerchantCategory, Select, Recategorize
<1>4. ASSUME NEW m \in Merchants, UpdateExpense(m) \/ DeleteMerchantRule(m) PROVE UNCHANGED <<uploads, questions>>
  BY <1>4 DEF UpdateExpense, DeleteMerchantRule
<1>5. ASSUME NEW d \in Entries, DeleteBankTransaction(d) PROVE UNCHANGED <<uploads, questions>>
  BY <1>5 DEF DeleteBankTransaction
<1>6. RestartBills => UNCHANGED payments
  BY DEF RestartBills
<1>7. UNCHANGED billVars => UNCHANGED payments
  BY DEF billVars
<1> QED
  BY <1>1, <1>2, <1>3, <1>4, <1>5, <1>6, <1>7 DEF BillsNext

\* A rule of the user's gives way to one of the model's only when a question is answered.
LEMMA OnlyAnswersOverride ==
  ASSUME BillsIInv, [BillsNext]_billVars, NEW m \in Merchants, UserRule(m),
         rules'[m] # NoRow, rules'[m].source = "llm"
  PROVE  \E i \in Imports : \E q \in questions[i] \ questions'[i] : Statement[q.entry].merchant = m /\ (~q.ruled \/ q.failed)
<1> USE DEF BillsIInv
<1>1. rules'[m] # rules[m]
  BY DEF UserRule
<1>2. ASSUME NEW i \in Imports, Answer(i)
      PROVE  \E q \in questions[i] \ questions'[i] : Statement[q.entry].merchant = m /\ (~q.ruled \/ q.failed)
  <2> DEFINE entries == {q.entry : q \in questions[i]}
             asked == {q \in questions[i] : q.entry = Min(entries)}
  <2>1. questions[i] \in SUBSET Question /\ questions[i] # {}
    BY <1>2 DEF Answer, BillsTypeOK
  <2>2. \A q \in questions[i] : q.entry \in Nat /\ (~q.ruled \/ q.failed)
    <3> SUFFICES ASSUME NEW q \in questions[i] PROVE q.entry \in Nat /\ (~q.ruled \/ q.failed)
      OBVIOUS
    <3>1. q.entry \in Entries /\ (q.ruled => q.failed)
      BY <2>1 DEF Question
    <3> QED
      BY <3>1, StatementFacts
  <2>3. entries \in SUBSET Nat /\ entries # {}
    BY <2>1, <2>2
  <2>4. Min(entries) \in entries
    BY <2>3, MinIsInTheSet
  <2>5. PICK q \in questions[i] : q.entry = Min(entries)
    BY <2>4
  <2>6. questions'[i] = questions[i] \ asked
    BY <1>2 DEF Answer, BillsTypeOK
  <2>7. \E category : rules' = [rules EXCEPT ![Statement[Min(entries)].merchant] = Rule(category, "llm")]
    BY <1>1, <1>2 DEF Answer
  <2>8. Statement[Min(entries)].merchant = m
    BY <1>1, <2>7 DEF BillsTypeOK
  <2> QED
    BY <2>2, <2>5, <2>6, <2>8
<1>3. ASSUME NEW u \in Updates, SaveUserMerchantCategory(u) PROVE FALSE
  <2>1. UNCHANGED rules \/ rules' = [rules EXCEPT ![updates[u].merchant] = Rule(updates[u].category, "user")]
    BY <1>3 DEF SaveUserMerchantCategory
  <2> QED
    BY <1>1, <2>1 DEF BillsTypeOK, Rule
<1>4. ASSUME NEW n \in Merchants, UpdateExpense(n) PROVE FALSE
  BY <1>1, <1>4 DEF UpdateExpense, BillsTypeOK, Rule
<1>5. ASSUME NEW n \in Merchants, DeleteMerchantRule(n) PROVE FALSE
  BY <1>1, <1>5 DEF DeleteMerchantRule, BillsTypeOK
<1>6. ASSUME NEW i \in Imports, Upload(i) \/ Roundup(i) \/ Lookup(i) \/ Insert(i) PROVE UNCHANGED rules
  BY <1>6 DEF Upload, Roundup, Lookup, Insert
<1>7. ASSUME NEW u \in Updates, UpdateBankTransaction(u) \/ Select(u) \/ Recategorize(u) PROVE UNCHANGED rules
  BY <1>7 DEF UpdateBankTransaction, Select, Recategorize, Fails
<1>8. ASSUME NEW e \in Entries, DeleteBankTransaction(e) PROVE UNCHANGED rules
  BY <1>8 DEF DeleteBankTransaction
<1>9. RestartBills \/ UNCHANGED billVars => UNCHANGED rules
  BY DEF RestartBills, billVars
<1> QED
  BY <1>1, <1>2, <1>3, <1>4, <1>5, <1>6, <1>7, <1>8, <1>9 DEF BillsNext

\* TheUserIsOverriddenByLateAnswersOnly: a rule of the user's is replaced by the model's
\* only through a question that was asked when there was no such rule, or it was not read
\* (src/main.go, categorizeWithAI).
THEOREM UserIsOverriddenLate == BillsSpec => TheUserIsOverriddenByLateAnswersOnly
<1>1. BillsIInv /\ [BillsNext]_billVars =>
        [/\ <<uploads, questions>>' # <<uploads, questions>> => \A e \in Rows : payments'[e] = payments[e]
         /\ \A m \in Merchants : UserRule(m) /\ rules'[m] # NoRow /\ rules'[m].source = "llm" =>
                \E i \in Imports : \E q \in questions[i] \ questions'[i] : Statement[q.entry].merchant = m /\ (~q.ruled \/ q.failed)]_billVars
  BY ImportsKeepPayments, OnlyAnswersOverride
<1> QED
  BY <1>1, BillsInvariant, PTL DEF BillsSpec, TheUserIsOverriddenByLateAnswersOnly

\* A set of numbers below another has a greatest one.
LEMMA GreatestBelow ==
  ASSUME NEW S \in SUBSET Nat, S # {}, NEW n \in Nat, \A i \in S : i <= n
  PROVE  \E i \in S : \A j \in S : j <= i
<1> DEFINE T == {n - i : i \in S}
<1>0. \A i \in S : n - i \in Nat
  OBVIOUS
<1>1. T \in SUBSET Nat /\ T # {}
  BY <1>0
<1>2. PICK d \in T : \A y \in T : ~(<<y, d>> \in Less)
  BY <1>1, LessIsWellFounded, WFMin
<1>3. PICK i \in S : d = n - i
  OBVIOUS
<1>4. ASSUME NEW j \in S PROVE j <= i
  <2>1. n - j \in T /\ n - j \in Nat /\ d \in Nat
    BY <1>1
  <2>2. <<n - j, d>> \in Nat \X Nat /\ <<n - j, d>>[1] = n - j /\ <<n - j, d>>[2] = d
    BY <2>1
  <2>3. ~(n - j < d)
    BY <1>2, <2>1, <2>2 DEF Less
  <2> QED
    BY <1>3, <2>1, <2>3
<1> QED
  BY <1>4

LEMMA NoLength == ASSUME NEW S, NEW s \in Seq(S) PROVE s = <<>> <=> Len(s) = 0
OBVIOUS

(***************************************************************************)
(* The caches of the data service.                                         *)
(***************************************************************************)

LEMMA CacheNumbers ==
  /\ IsFiniteSet(Threads) /\ IsFiniteSet(Funds)
  /\ Room \in Nat \ {0} /\ HoursPerTick \in Nat \ {0} /\ LongTtl \in Nat \ {0}
  /\ MaxRaces \in Nat /\ MaxOutages \in Nat /\ MaxRestarts \in Nat
BY CachesAssumption

LEMMA FunctionFacts ==
  ASSUME NEW f \in DOMAIN Functions
  PROVE  /\ Functions[f].hours \in Nat /\ Functions[f].maxsize \in Nat
         /\ Functions[f].shared \in BOOLEAN /\ Functions[f].body \in Seq(Steps)
         /\ Callers(f) \subseteq DOMAIN Functions
         /\ \A g, h \in Callers(f) : g = h
         /\ Expires(f) => \A g \in Callers(f) : Expires(g)
BY CachesAssumption DEF Callers

LEMMA SizeType == ASSUME NEW f \in DOMAIN Functions PROVE Size(f) \in Nat
BY FunctionFacts, CacheNumbers DEF Size

\* A time to live counts at least a tick.
LEMMA TtlType ==
  ASSUME NEW f \in DOMAIN Functions
  PROVE  Ttl(f) \in Nat /\ (Expires(f) => Ttl(f) > 0)
<1> DEFINE hours == Functions[f].hours
           ticks == hours \div HoursPerTick
<1>1. hours \in Nat /\ HoursPerTick \in Nat \ {0} /\ LongTtl \in Nat \ {0}
  BY FunctionFacts, CacheNumbers
<1>2. ticks \in Nat
  BY <1>1
<1>3. Expires(f) => hours >= HoursPerTick
  BY CachesAssumption
<1>4. hours >= HoursPerTick => ticks > 0
  BY <1>1
<1> QED
  BY <1>1, <1>2, <1>3, <1>4 DEF Ttl

\* Every set of functions has one that none of the set calls.
LEMMA Outermost ==
  ASSUME NEW S \in SUBSET DOMAIN Functions, S # {}
  PROVE  \E f \in S : Callers(f) \cap S = {}
BY CachesAssumption

\* What Wait is to be on some functions that have their callers among them.
Waits(g, X) ==
  /\ X \subseteq DOMAIN Functions /\ \A x \in X : Callers(x) \subseteq X
  /\ g \in [X -> Nat]
  /\ \A x \in X : g[x] = IF Callers(x) = {} THEN Ttl(x) ELSE Ttl(x) + g[CHOOSE c \in Callers(x) : TRUE]

LEMMA TheCaller ==
  ASSUME NEW f \in DOMAIN Functions, NEW c \in Callers(f)
  PROVE  (CHOOSE d \in Callers(f) : TRUE) = c /\ Callers(f) = {c}
<1>1. Callers(f) = {c}
  BY FunctionFacts
<1>2. (CHOOSE d \in Callers(f) : TRUE) \in Callers(f)
  OBVIOUS
<1> QED
  BY <1>1, <1>2

LEMMA WaitsAgree ==
  ASSUME NEW g, NEW X, Waits(g, X), NEW h, NEW Y, Waits(h, Y)
  PROVE  \A x \in X \cap Y : g[x] = h[x]
<1> DEFINE S == {x \in X \cap Y : g[x] # h[x]}
<1> SUFFICES ASSUME S # {} PROVE FALSE
  OBVIOUS
<1>1. S \in SUBSET DOMAIN Functions
  BY DEF Waits
<1>2. PICK f \in S : Callers(f) \cap S = {}
  BY <1>1, Outermost
<1>3. f \in X /\ f \in Y /\ g[f] # h[f] /\ f \in DOMAIN Functions
  BY <1>1
<1>4. CASE Callers(f) = {}
  BY <1>3, <1>4 DEF Waits
<1>5. CASE Callers(f) # {}
  <2>1. PICK c \in Callers(f) : TRUE
    BY <1>5
  <2>2. (CHOOSE d \in Callers(f) : TRUE) = c
    BY <1>3, <2>1, TheCaller
  <2>3. c \in X /\ c \in Y /\ c \notin S
    BY <1>2, <1>3, <2>1 DEF Waits
  <2>4. g[c] = h[c]
    BY <2>3
  <2>5. g[f] = Ttl(f) + g[c] /\ h[f] = Ttl(f) + h[c]
    BY <1>3, <1>5, <2>2 DEF Waits
  <2> QED
    BY <1>3, <2>4, <2>5
<1> QED
  BY <1>4, <1>5

LEMMA WaitsExist == \A f \in DOMAIN Functions : \E X : \E g : f \in X /\ Waits(g, X)
<1> DEFINE Bad == {f \in DOMAIN Functions : ~\E X : \E g : f \in X /\ Waits(g, X)}
<1> SUFFICES ASSUME Bad # {} PROVE FALSE
  OBVIOUS
<1>1. PICK f \in Bad : Callers(f) \cap Bad = {}
  BY Outermost
<1>2. f \in DOMAIN Functions
  OBVIOUS
<1>3. CASE Callers(f) = {}
  <2> DEFINE g == [x \in {f} |-> Ttl(f)]
  <2>1. Waits(g, {f})
    BY <1>2, <1>3, TtlType DEF Waits
  <2> QED
    BY <2>1
<1>4. CASE Callers(f) # {}
  <2>1. PICK c \in Callers(f) : TRUE
    BY <1>4
  <2>2. Callers(f) = {c} /\ (CHOOSE d \in Callers(f) : TRUE) = c /\ c \in DOMAIN Functions
    BY <1>2, <2>1, TheCaller, FunctionFacts
  <2>3. PICK X, h : c \in X /\ Waits(h, X)
    BY <1>1, <2>1, <2>2
  <2>4. f \notin X
    BY <2>3
  <2> DEFINE g == [x \in X \cup {f} |-> IF x = f THEN Ttl(f) + h[c] ELSE h[x]]
  <2>5. h \in [X -> Nat] /\ h[c] \in Nat /\ Ttl(f) \in Nat /\ Ttl(f) + h[c] \in Nat
    BY <1>2, <2>3, TtlType DEF Waits
  <2>6. g \in [X \cup {f} -> Nat]
    BY <2>5
  <2>7. X \cup {f} \subseteq DOMAIN Functions /\ \A x \in X \cup {f} : Callers(x) \subseteq X \cup {f}
    BY <1>2, <2>2, <2>3 DEF Waits
  <2>8. ASSUME NEW x \in X \cup {f}
        PROVE  g[x] = IF Callers(x) = {} THEN Ttl(x) ELSE Ttl(x) + g[CHOOSE d \in Callers(x) : TRUE]
    <3>1. CASE x = f
      <4>1. g[c] = h[c] /\ g[f] = Ttl(f) + h[c]
        BY <2>3, <2>4
      <4> QED
        BY <1>4, <2>2, <3>1, <4>1
    <3>2. CASE x # f /\ Callers(x) = {}
      <4>1. h[x] = Ttl(x)
        BY <2>3, <3>2 DEF Waits
      <4> QED
        BY <3>2, <4>1
    <3>3. CASE x # f /\ Callers(x) # {}
      <4> DEFINE d == CHOOSE d \in Callers(x) : TRUE
      <4>1. d \in Callers(x)
        BY <3>3
      <4>2. d \in X
        BY <2>3, <3>3, <4>1 DEF Waits
      <4>3. h[x] = Ttl(x) + h[d]
        BY <2>3, <3>3 DEF Waits
      <4>4. g[x] = h[x] /\ g[d] = h[d]
        BY <2>4, <3>3, <4>2
      <4> QED
        BY <3>3, <4>3, <4>4
    <3> QED
      BY <3>1, <3>2, <3>3
  <2>9. Waits(g, X \cup {f})
    BY <2>6, <2>7, <2>8 DEF Waits
  <2> QED
    BY <1>1, <2>9
<1> QED
  BY <1>3, <1>4

LEMMA WaitsEverywhere == \E g : Waits(g, DOMAIN Functions)
<1> DEFINE Of(f) == CHOOSE p : f \in p[1] /\ Waits(p[2], p[1])
           g == [f \in DOMAIN Functions |-> Of(f)[2][f]]
<1>1. \A f \in DOMAIN Functions : f \in Of(f)[1] /\ Waits(Of(f)[2], Of(f)[1])
  <2> SUFFICES ASSUME NEW f \in DOMAIN Functions PROVE \E p : f \in p[1] /\ Waits(p[2], p[1])
    OBVIOUS
  <2>1. PICK X, h : f \in X /\ Waits(h, X)
    BY WaitsExist
  <2>2. <<X, h>>[1] = X /\ <<X, h>>[2] = h
    OBVIOUS
  <2>3. f \in <<X, h>>[1] /\ Waits(<<X, h>>[2], <<X, h>>[1])
    BY <2>1, <2>2
  <2> QED
    BY <2>3
<1> HIDE DEF Of
<1>2. \A f \in DOMAIN Functions : g[f] \in Nat
  BY <1>1 DEF Waits
<1>3. ASSUME NEW f \in DOMAIN Functions
      PROVE  g[f] = IF Callers(f) = {} THEN Ttl(f) ELSE Ttl(f) + g[CHOOSE c \in Callers(f) : TRUE]
  <2>1. CASE Callers(f) = {}
    BY <1>1, <2>1 DEF Waits
  <2>2. CASE Callers(f) # {}
    <3> DEFINE c == CHOOSE c \in Callers(f) : TRUE
    <3>1. c \in Callers(f)
      BY <2>2
    <3>2. c \in DOMAIN Functions /\ c \in Of(f)[1]
      BY <1>1, <3>1 DEF Waits, Callers
    <3>3. Of(f)[2][f] = Ttl(f) + Of(f)[2][c]
      BY <1>1, <2>2 DEF Waits
    <3>4. Of(f)[2][c] = Of(c)[2][c]
      BY <1>1, <3>2, WaitsAgree
    <3> QED
      BY <2>2, <3>2, <3>3, <3>4
  <2> QED
    BY <2>1, <2>2
<1>4. Waits(g, DOMAIN Functions)
  BY <1>2, <1>3, FunctionFacts DEF Waits
<1> QED
  BY <1>4

\* Wait is what its definition says: a function, by induction on the callers.
LEMMA WaitFacts ==
  /\ Wait \in [DOMAIN Functions -> Nat]
  /\ \A f \in DOMAIN Functions : Wait[f] >= Ttl(f)
  /\ \A f \in DOMAIN Functions : \A c \in Callers(f) : Wait[f] = Ttl(f) + Wait[c]
<1> DEFINE Solves(g) ==
      g = [f \in DOMAIN Functions |->
             IF Callers(f) = {} THEN Ttl(f) ELSE Ttl(f) + g[CHOOSE c \in Callers(f) : TRUE]]
<1>1. PICK g : Waits(g, DOMAIN Functions)
  BY WaitsEverywhere
<1>2. Solves(g)
  BY <1>1 DEF Waits
<1>3. Wait = CHOOSE w : Solves(w)
  BY DEF Wait
<1>4. Solves(Wait)
  BY <1>2, <1>3
<1> HIDE DEF Solves
<1>5. Wait \in [DOMAIN Functions -> Nat]
  <2> DEFINE S == {f \in DOMAIN Functions : Wait[f] # g[f]}
  <2>0. /\ DOMAIN Wait = DOMAIN Functions
        /\ \A f \in DOMAIN Functions :
             Wait[f] = IF Callers(f) = {} THEN Ttl(f) ELSE Ttl(f) + Wait[CHOOSE c \in Callers(f) : TRUE]
    BY <1>4 DEF Solves
  <2>1. S = {}
    <3> SUFFICES ASSUME S # {} PROVE FALSE
      OBVIOUS
    <3>1. PICK f \in S : Callers(f) \cap S = {}
      BY Outermost
    <3>2. CASE Callers(f) = {}
      BY <1>1, <2>0, <3>2 DEF Waits
    <3>3. CASE Callers(f) # {}
      <4> DEFINE c == CHOOSE c \in Callers(f) : TRUE
      <4>1. c \in Callers(f)
        BY <3>3
      <4>2. c \in DOMAIN Functions /\ c \notin S
        BY <3>1, <4>1 DEF Callers
      <4>3. Wait[c] = g[c]
        BY <4>2
      <4>4. Wait[f] = Ttl(f) + Wait[c] /\ g[f] = Ttl(f) + g[c]
        BY <1>1, <2>0, <3>3 DEF Waits
      <4> QED
        BY <4>3, <4>4
    <3> QED
      BY <3>2, <3>3
  <2>2. \A f \in DOMAIN Functions : Wait[f] \in Nat
    BY <1>1, <2>1 DEF Waits
  <2>3. Wait = [f \in DOMAIN Functions |-> Wait[f]]
    BY <1>4 DEF Solves
  <2> QED
    BY <2>2, <2>3
<1>6. \A f \in DOMAIN Functions :
         Wait[f] = IF Callers(f) = {} THEN Ttl(f) ELSE Ttl(f) + Wait[CHOOSE c \in Callers(f) : TRUE]
  BY <1>4 DEF Solves
<1>7. ASSUME NEW f \in DOMAIN Functions, NEW c \in Callers(f) PROVE Wait[f] = Ttl(f) + Wait[c]
  BY <1>6, TheCaller
<1>8. ASSUME NEW f \in DOMAIN Functions PROVE Wait[f] >= Ttl(f)
  <2>1. CASE Callers(f) = {}
    BY <1>6, <2>1, TtlType
  <2>2. CASE Callers(f) # {}
    <3>1. PICK c \in Callers(f) : TRUE
      BY <2>2
    <3>2. c \in DOMAIN Functions
      BY FunctionFacts
    <3> QED
      BY <1>5, <1>7, <3>2, TtlType
  <2> QED
    BY <2>1, <2>2
<1> QED
  BY <1>5, <1>7, <1>8

\* The calls of a thread: each but the last waits in its function for the next one, and
\* began no later.
CallsAreNested ==
  \A t \in Threads : \A i \in 1 .. Len(stack[t]) :
    LET frame == stack[t][i] IN
    /\ frame.now <= clock
    /\ i < Len(stack[t]) =>
         /\ frame.at = "body" /\ frame.next \in DOMAIN Functions[frame.f].body
         /\ Functions[frame.f].body[frame.next].does = "call"
         /\ Functions[frame.f].body[frame.next].function = stack[t][i + 1].f
         /\ frame.now <= stack[t][i + 1].now
    /\ frame.at \in {"get", "delete", "count", "oldest", "evict"} => Expires(frame.f)

\* The threads that have stored a result of the function and may still evict one.
Evicting(f) == {t \in Threads : Busy(t) /\ Top(t).f = f /\ Top(t).at \in {"count", "oldest", "evict"}}

EvictionsAreOwed ==
  \A f \in DOMAIN Functions : Cardinality(Cached(f)) <= Size(f) + raced + Cardinality(Evicting(f))

\* Sources of a result of f that was begun at the time base.
Fresh(f, base, born) ==
  \A source \in born :
    /\ started <= source[2]
    /\ Expires(source[1]) => Expires(f) /\ base - (Wait[source[1]] - Wait[f]) <= source[2]

SourcesAreFresh ==
  /\ \A t \in Threads : \A i \in 1 .. Len(stack[t]) : Fresh(stack[t][i].f, stack[t][i].now, stack[t][i].born)
  /\ \A f \in DOMAIN Functions : \A a \in Arguments :
       cache[f][a] # Nothing => cache[f][a].time <= clock /\ Fresh(f, cache[f][a].time, cache[f][a].born)

LEMMA StackFacts ==
  ASSUME CachesTypeOK, NEW t \in Threads
  PROVE  /\ stack[t] \in Seq(Frames) /\ Len(stack[t]) \in Nat
         /\ Busy(t) => Len(stack[t]) > 0 /\ Top(t) \in Frames
         /\ ~Busy(t) => Len(stack[t]) = 0
         /\ \A i \in 1 .. Len(stack[t]) : stack[t][i] \in Frames
<1>1. stack[t] \in Seq(Frames)
  BY DEF CachesTypeOK
<1> QED
  BY <1>1 DEF Busy, Top

LEMMA FrameFacts ==
  ASSUME NEW frame \in Frames
  PROVE  /\ frame.f \in DOMAIN Functions /\ frame.fund \in Funds /\ frame.arg \in Arguments
         /\ frame.at \in {"look", "get", "delete", "body", "count", "oldest", "evict"}
         /\ frame.now \in Nat /\ frame.next \in Nat \ {0} /\ frame.ok \in BOOLEAN
         /\ frame.born \in SUBSET Sources /\ frame.keys \in SUBSET Arguments /\ frame.oldest \in Arguments
BY DEF Frames

LEMMA GoesOnFacts ==
  ASSUME NEW frame \in Frames, NEW ok \in BOOLEAN, NEW born \in SUBSET Sources
  PROVE  /\ GoesOn(frame, ok, born) \in Frames
         /\ GoesOn(frame, ok, born).f = frame.f /\ GoesOn(frame, ok, born).now = frame.now
         /\ GoesOn(frame, ok, born).at = frame.at
         /\ GoesOn(frame, ok, born).born = frame.born \union born
<1> DEFINE both == frame.ok /\ ok
           all == frame.born \union born
           new == GoesOn(frame, ok, born)
<1>1. both \in BOOLEAN /\ all \in SUBSET Sources /\ frame.next + 1 \in Nat \ {0}
  BY FrameFacts
<1>2. new = [frame EXCEPT !.next = frame.next + 1, !.ok = both, !.born = all]
  BY DEF GoesOn
<1> HIDE DEF both, all
<1>3. /\ new \in Frames /\ new.f = frame.f /\ new.now = frame.now /\ new.at = frame.at
      /\ new.born = all
  BY <1>1, <1>2, Zenon DEF Frames
<1> QED
  BY <1>3 DEF all

\* The calls of t are the first k of what they were, the last of them changed.
Cut(t, k) ==
  /\ k \in 0 .. Len(stack[t])
  /\ stack' \in [Threads -> Seq(Frames)]
  /\ Len(stack'[t]) = k
  /\ \A i \in 1 .. k - 1 : stack'[t][i] = stack[t][i]
  /\ k > 0 => stack'[t][k].f = stack[t][k].f /\ stack'[t][k].now = stack[t][k].now
  /\ \A u \in Threads \ {t} : stack'[u] = stack[u]

LEMMA SetTopCuts ==
  ASSUME CachesTypeOK, NEW t \in Threads, Busy(t), NEW frame \in Frames, SetTop(t, frame),
         frame.f = Top(t).f, frame.now = Top(t).now
  PROVE  /\ Cut(t, Len(stack[t])) /\ Busy(t)' /\ Top(t)' = frame
         /\ stack'[t][Len(stack[t])] = frame
<1>1. stack[t] \in Seq(Frames) /\ Len(stack[t]) \in Nat /\ Len(stack[t]) > 0
  BY StackFacts
<1> DEFINE n == Len(stack[t])
           new == [stack[t] EXCEPT ![n] = frame]
<1>2. stack' = [stack EXCEPT ![t] = new]
  BY DEF SetTop
<1>3. new \in Seq(Frames) /\ Len(new) = n /\ new[n] = frame /\ \A i \in 1 .. n - 1 : new[i] = stack[t][i]
  BY <1>1
<1>4. stack \in [Threads -> Seq(Frames)]
  BY DEF CachesTypeOK
<1>5. stack'[t] = new /\ stack' \in [Threads -> Seq(Frames)] /\ \A u \in Threads \ {t} : stack'[u] = stack[u]
  BY <1>2, <1>3, <1>4
<1>6. stack'[t] # <<>>
  BY <1>1, <1>3, <1>5
<1> HIDE DEF new
<1>7. Busy(t)' /\ Top(t)' = frame
  BY <1>3, <1>5, <1>6 DEF Busy, Top
<1> QED
  BY <1>1, <1>3, <1>5, <1>7 DEF Cut, Top

LEMMA Fronts ==
  ASSUME NEW S, NEW s \in Seq(S), NEW k \in 0 .. Len(s)
  PROVE  LET front == SubSeq(s, 1, k)
         IN  /\ front \in Seq(S) /\ Len(front) = k
             /\ \A i \in 1 .. k : front[i] = s[i]
             /\ front = <<>> <=> k = 0
OBVIOUS

\* The calls of t go down to the last of k, which goes on, if there is one.
CutsTo(t, k, ok, born) ==
  /\ Cut(t, k)
  /\ k > 0 => stack'[t][k] = GoesOn(stack[t][k], ok, born)

LEMMA GoingOnCuts ==
  ASSUME CachesTypeOK, NEW t \in Threads, NEW k \in 1 .. Len(stack[t]),
         NEW ok \in BOOLEAN, NEW born \in SUBSET Sources,
         stack' = [stack EXCEPT ![t] = [SubSeq(stack[t], 1, k) EXCEPT ![k] = GoesOn(stack[t][k], ok, born)]]
  PROVE  CutsTo(t, k, ok, born)
<1> DEFINE frames == stack[t]
           front == SubSeq(frames, 1, k)
           top == GoesOn(frames[k], ok, born)
           changed == [front EXCEPT ![k] = top]
<1>1. frames \in Seq(Frames) /\ Len(frames) \in Nat /\ stack \in [Threads -> Seq(Frames)]
  BY StackFacts DEF CachesTypeOK
<1>2. k \in 0 .. Len(frames) /\ k \in Nat /\ k > 0
  BY <1>1
<1>3. front \in Seq(Frames) /\ Len(front) = k /\ \A i \in 1 .. k : front[i] = frames[i]
  BY <1>1, <1>2, Fronts
<1>4. frames[k] \in Frames
  BY StackFacts
<1>6. stack' = [stack EXCEPT ![t] = changed]
  OBVIOUS
<1> HIDE DEF frames
<1>5. top \in Frames /\ top.f = frames[k].f /\ top.now = frames[k].now
  BY <1>4, GoesOnFacts
<1> HIDE DEF front, top
<1>7. /\ changed \in Seq(Frames) /\ Len(changed) = k /\ changed[k] = top
      /\ \A i \in 1 .. k - 1 : changed[i] = frames[i]
  BY <1>2, <1>3, <1>5
<1> HIDE DEF changed
<1>8. stack'[t] = changed /\ stack' \in [Threads -> Seq(Frames)] /\ \A u \in Threads \ {t} : stack'[u] = stack[u]
  BY <1>1, <1>6, <1>7
<1> QED
  BY <1>2, <1>5, <1>7, <1>8 DEF Cut, CutsTo, top, frames

LEMMA NoneLeftCuts ==
  ASSUME CachesTypeOK, NEW t \in Threads, stack' = [stack EXCEPT ![t] = <<>>], NEW ok, NEW born
  PROVE  CutsTo(t, 0, ok, born)
<1>1. stack \in [Threads -> Seq(Frames)] /\ Len(stack[t]) \in Nat
  BY StackFacts DEF CachesTypeOK
<1>2. stack'[t] = <<>> /\ stack' \in [Threads -> Seq(Frames)] /\ \A u \in Threads \ {t} : stack'[u] = stack[u]
  BY <1>1
<1> QED
  BY <1>1, <1>2 DEF Cut, CutsTo

LEMMA ReturnsCuts ==
  ASSUME CachesTypeOK, NEW t \in Threads, Busy(t), NEW ok \in BOOLEAN, NEW born \in SUBSET Sources,
         Returns(t, ok, born)
  PROVE  CutsTo(t, Len(stack[t]) - 1, ok, born)
<1>1. stack[t] \in Seq(Frames) /\ Len(stack[t]) \in Nat /\ Len(stack[t]) > 0
  BY StackFacts
<1> DEFINE k == Len(stack[t]) - 1
           rest == SubSeq(stack[t], 1, k)
<1>2. k \in 0 .. Len(stack[t])
  BY <1>1
<1>3. rest \in Seq(Frames) /\ Len(rest) = k /\ (rest = <<>> <=> k = 0)
  BY <1>1, <1>2, Fronts
<1>4. CASE k = 0
  <2>1. stack' = [stack EXCEPT ![t] = <<>>]
    BY <1>3, <1>4 DEF Returns
  <2> QED
    BY <1>4, <2>1, NoneLeftCuts
<1>5. CASE k > 0
  <2>1. k \in 1 .. Len(stack[t])
    BY <1>2, <1>5
  <2>2. rest[k] = stack[t][k]
    BY <1>1, <1>2, <2>1, Fronts
  <2>3. rest # <<>>
    BY <1>3, <1>5
  <2>4. stack' = [stack EXCEPT ![t] = [rest EXCEPT ![Len(rest)] = GoesOn(rest[Len(rest)], ok, born)]]
    BY <2>3 DEF Returns
  <2>5. stack' = [stack EXCEPT ![t] = [rest EXCEPT ![k] = GoesOn(stack[t][k], ok, born)]]
    BY <1>3, <2>2, <2>4
  <2> HIDE DEF k
  <2>6. stack' = [stack EXCEPT ![t] = [SubSeq(stack[t], 1, k) EXCEPT ![k] = GoesOn(stack[t][k], ok, born)]]
    BY <2>5
  <2>7. CutsTo(t, k, ok, born)
    BY <2>1, <2>6, GoingOnCuts
  <2> QED
    BY <2>7 DEF k
<1>6. k = 0 \/ k > 0
  <2>1. k \in Nat
    BY <1>1
  <2> HIDE DEF k
  <2> QED
    BY <2>1
<1> QED
  BY <1>4, <1>5, <1>6

\* An exception is caught by a call further down, or by none.
LEMMA RaisesCuts ==
  ASSUME CachesTypeOK, NEW t \in Threads, Busy(t), Raises(t)
  PROVE  /\ raced' = raced + 1 /\ raced' \in 0..MaxRaces
         /\ \E k \in 0 .. Len(stack[t]) - 1 : CutsTo(t, k, FALSE, {})
<1>1. stack[t] \in Seq(Frames) /\ Len(stack[t]) \in Nat /\ Len(stack[t]) > 0
  BY StackFacts
<1> DEFINE frames == stack[t]
           n == Len(frames)
           catching == {i \in 1 .. n - 1 : Functions[frames[i].f].body[frames[i].next].caught}
           last == CHOOSE i \in catching : \A j \in catching : j <= i
<1>2. raced' = raced + 1 /\ raced' \in 0..MaxRaces
  <2>1. raced < MaxRaces /\ raced' = raced + 1
    BY DEF Raises
  <2>2. raced \in 0..MaxRaces
    BY DEF CachesTypeOK
  <2> QED
    BY <2>1, <2>2, CacheNumbers
<1>4. CASE catching = {}
  <2>1. stack' = [stack EXCEPT ![t] = <<>>]
    BY <1>4 DEF Raises
  <2>2. CutsTo(t, 0, FALSE, {})
    BY <2>1, NoneLeftCuts
  <2>3. 0 \in 0 .. Len(stack[t]) - 1
    BY <1>1
  <2> QED
    BY <1>2, <2>2, <2>3
<1>5. CASE catching # {}
  <2>1. last \in catching
    <3>1. catching \in SUBSET Nat /\ \A i \in catching : i <= n - 1 /\ i >= 1
      BY <1>1
    <3>2. n - 1 \in Nat
      BY <1>1
    <3> HIDE DEF catching
    <3>3. \E i \in catching : \A j \in catching : j <= i
      BY <1>5, <3>1, <3>2, GreatestBelow
    <3> QED
      BY <3>3
  <2>2. stack' = [stack EXCEPT ![t] = [SubSeq(frames, 1, last) EXCEPT ![last] = GoesOn(frames[last], FALSE, {})]]
    BY <1>5 DEF Raises
  <2> HIDE DEF last
  <2>3. last \in 1 .. n /\ last \in 0 .. n - 1
    BY <1>1, <2>1
  <2> HIDE DEF catching
  <2>4. CutsTo(t, last, FALSE, {})
    BY <2>2, <2>3, GoingOnCuts
  <2> QED
    BY <1>2, <2>3, <2>4
<1> QED
  BY <1>4, <1>5

\* The calls below the last of a thread wait in their functions.
LEMMA WaitingCalls ==
  ASSUME CachesTypeOK, CallsAreNested, NEW t \in Threads, NEW k \in 1 .. Len(stack[t]) - 1
  PROVE  /\ stack[t][k] \in Frames /\ stack[t][k + 1] \in Frames /\ stack[t][k].at = "body"
         /\ stack[t][k].f \in Callers(stack[t][k + 1].f) /\ stack[t][k].now <= stack[t][k + 1].now
<1>1. Len(stack[t]) \in Nat
  BY StackFacts
<1>2. k \in 1 .. Len(stack[t]) /\ k + 1 \in 1 .. Len(stack[t]) /\ k < Len(stack[t])
  BY <1>1
<1>3. stack[t][k] \in Frames /\ stack[t][k + 1] \in Frames
  BY <1>2, StackFacts
<1>4. LET frame == stack[t][k] IN
      /\ frame.at = "body" /\ frame.next \in DOMAIN Functions[frame.f].body
      /\ Functions[frame.f].body[frame.next].does = "call"
      /\ Functions[frame.f].body[frame.next].function = stack[t][k + 1].f
      /\ frame.now <= stack[t][k + 1].now
  BY <1>2 DEF CallsAreNested
<1>5. stack[t][k].f \in DOMAIN Functions
  BY <1>3, FrameFacts
<1> QED
  BY <1>3, <1>4, <1>5 DEF Callers

\* Who evicts is at the end of what it has stored.
LEMMA NotEvicting ==
  ASSUME NEW t \in Threads, ~Busy(t) \/ Top(t).at \in {"look", "get", "delete", "body"}, NEW f
  PROVE  t \notin Evicting(f)
BY DEF Evicting

LEMMA AfterCut ==
  ASSUME CachesTypeOK, NEW t \in Threads, NEW k \in 0 .. Len(stack[t]), Cut(t, k)
  PROVE  /\ Busy(t)' <=> k > 0
         /\ k > 0 => Top(t)' = stack'[t][k]
<1>1. k \in Nat
  BY StackFacts
<1>2. stack'[t] \in Seq(Frames) /\ Len(stack'[t]) = k
  BY DEF Cut
<1>3. stack'[t] = <<>> <=> k = 0
  BY <1>2, NoLength
<1> QED
  BY <1>1, <1>2, <1>3 DEF Busy, Top

LEMMA AfterCutsTo ==
  ASSUME CachesTypeOK, CallsAreNested, NEW t \in Threads, NEW k \in 0 .. Len(stack[t]) - 1,
         NEW ok \in BOOLEAN, NEW born \in SUBSET Sources, CutsTo(t, k, ok, born)
  PROVE  /\ \A f : t \notin Evicting(f)'
         /\ k > 0 => /\ stack'[t][k].at = "body" /\ stack'[t][k].f = stack[t][k].f
                     /\ stack'[t][k].now = stack[t][k].now
                     /\ stack'[t][k].born = stack[t][k].born \union born
<1>1. Len(stack[t]) \in Nat /\ k \in 0 .. Len(stack[t]) /\ k \in Nat
  BY StackFacts
<1>2. /\ Busy(t)' <=> k > 0
      /\ k > 0 => Top(t)' = stack'[t][k]
  BY <1>1, AfterCut DEF CutsTo
<1>3. ASSUME k > 0
      PROVE  /\ stack'[t][k].at = "body" /\ stack'[t][k].f = stack[t][k].f
             /\ stack'[t][k].now = stack[t][k].now /\ stack'[t][k].born = stack[t][k].born \union born
  <2>1. k \in 1 .. Len(stack[t]) - 1
    BY <1>3
  <2>2. stack[t][k] \in Frames /\ stack[t][k].at = "body"
    BY <2>1, WaitingCalls
  <2>3. stack'[t][k] = GoesOn(stack[t][k], ok, born)
    BY <1>3 DEF CutsTo
  <2> QED
    BY <2>2, <2>3, GoesOnFacts
<1>4. ~Busy(t)' \/ Top(t)'.at = "body"
  BY <1>1, <1>2, <1>3
<1>5. \A f : t \notin Evicting(f)'
  BY <1>4 DEF Evicting
<1> QED
  BY <1>3, <1>5

LEMMA NestedAfterCut ==
  ASSUME CachesTypeOK, CallsAreNested, NEW t \in Threads, NEW k \in 0 .. Len(stack[t]), Cut(t, k),
         clock' = clock,
         k > 0 => (stack'[t][k].at \in {"get", "delete", "count", "oldest", "evict"} => Expires(stack'[t][k].f))
  PROVE  CallsAreNested'
<1>1. Len(stack[t]) \in Nat /\ k \in Nat /\ k <= Len(stack[t])
  BY StackFacts
<1>2. ASSUME NEW u \in Threads, u # t, NEW i \in 1 .. Len(stack'[u])
      PROVE  LET frame == stack'[u][i] IN
             /\ frame.now <= clock'
             /\ i < Len(stack'[u]) =>
                  /\ frame.at = "body" /\ frame.next \in DOMAIN Functions[frame.f].body
                  /\ Functions[frame.f].body[frame.next].does = "call"
                  /\ Functions[frame.f].body[frame.next].function = stack'[u][i + 1].f
                  /\ frame.now <= stack'[u][i + 1].now
             /\ frame.at \in {"get", "delete", "count", "oldest", "evict"} => Expires(frame.f)
  <2>1. stack'[u] = stack[u]
    BY <1>2 DEF Cut
  <2> QED
    BY <1>2, <2>1 DEF CallsAreNested
<1>3. ASSUME NEW i \in 1 .. Len(stack'[t])
      PROVE  LET frame == stack'[t][i] IN
             /\ frame.now <= clock'
             /\ i < Len(stack'[t]) =>
                  /\ frame.at = "body" /\ frame.next \in DOMAIN Functions[frame.f].body
                  /\ Functions[frame.f].body[frame.next].does = "call"
                  /\ Functions[frame.f].body[frame.next].function = stack'[t][i + 1].f
                  /\ frame.now <= stack'[t][i + 1].now
             /\ frame.at \in {"get", "delete", "count", "oldest", "evict"} => Expires(frame.f)
  <2>1. Len(stack'[t]) = k /\ i \in 1 .. k /\ i \in 1 .. Len(stack[t])
    BY <1>1, <1>3 DEF Cut
  <2>2. CASE i = k
    <3>1. stack'[t][i].now = stack[t][i].now /\ stack[t][i].now <= clock
      BY <1>1, <2>1, <2>2 DEF Cut, CallsAreNested
    <3> QED
      BY <1>1, <2>1, <2>2, <3>1
  <2>3. CASE i < k
    <3>1. i \in 1 .. k - 1 /\ i < Len(stack[t]) /\ i + 1 \in 1 .. k
      BY <1>1, <2>1, <2>3
    <3>2. stack'[t][i] = stack[t][i]
      BY <3>1 DEF Cut
    <3>3. stack'[t][i + 1].f = stack[t][i + 1].f /\ stack'[t][i + 1].now = stack[t][i + 1].now
      <4>1. CASE i + 1 = k
        BY <1>1, <3>1, <4>1 DEF Cut
      <4>2. CASE i + 1 # k
        <5>1. i + 1 \in 1 .. k - 1
          BY <1>1, <3>1, <4>2
        <5> QED
          BY <5>1 DEF Cut
      <4> QED
        BY <4>1, <4>2
    <3> QED
      BY <2>1, <3>1, <3>2, <3>3 DEF CallsAreNested
  <2> QED
    BY <1>1, <2>1, <2>2, <2>3
<1> QED
  BY <1>2, <1>3 DEF CallsAreNested

LEMMA NestedAfterCutsTo ==
  ASSUME CachesTypeOK, CallsAreNested, NEW t \in Threads, NEW k \in 0 .. Len(stack[t]) - 1,
         NEW ok \in BOOLEAN, NEW born \in SUBSET Sources, CutsTo(t, k, ok, born), clock' = clock
  PROVE  CallsAreNested'
<1>1. k \in 0 .. Len(stack[t])
  BY StackFacts
<1>2. k > 0 => stack'[t][k].at = "body"
  BY AfterCutsTo
<1> QED
  BY <1>1, <1>2, NestedAfterCut DEF CutsTo

(***************************************************************************)
(* What is in the caches is fresh.                                         *)
(***************************************************************************)
LEMMA FreshAfterCut ==
  ASSUME CachesTypeOK, SourcesAreFresh, NEW t \in Threads, NEW k \in 0 .. Len(stack[t]), Cut(t, k),
         clock' = clock, started' = started,
         k > 0 => Fresh(stack'[t][k].f, stack'[t][k].now, stack'[t][k].born),
         \A f \in DOMAIN Functions : \A a \in Arguments : cache'[f][a] # Nothing =>
            \/ cache'[f][a] = cache[f][a]
            \/ cache'[f][a].time <= clock /\ Fresh(f, cache'[f][a].time, cache'[f][a].born)
  PROVE  SourcesAreFresh'
<1>1. Len(stack[t]) \in Nat /\ k \in Nat /\ k <= Len(stack[t])
  BY StackFacts
<1>2. ASSUME NEW u \in Threads, NEW i \in 1 .. Len(stack'[u])
      PROVE  Fresh(stack'[u][i].f, stack'[u][i].now, stack'[u][i].born)
  <2>1. CASE u # t
    BY <2>1 DEF Cut, SourcesAreFresh
  <2>2. CASE u = t /\ i = k
    <3>1. k > 0
      BY <1>1, <2>2, <1>2
    <3> QED
      BY <2>2, <3>1
  <2>3. CASE u = t /\ i # k
    <3>1. i \in 1 .. k - 1 /\ i \in 1 .. Len(stack[t])
      BY <1>1, <2>3 DEF Cut
    <3>2. stack'[t][i] = stack[t][i]
      BY <3>1 DEF Cut
    <3> QED
      BY <2>3, <3>1, <3>2 DEF SourcesAreFresh
  <2> QED
    BY <2>1, <2>2, <2>3
<1>3. ASSUME NEW f \in DOMAIN Functions, NEW a \in Arguments, cache'[f][a] # Nothing
      PROVE  cache'[f][a].time <= clock /\ Fresh(f, cache'[f][a].time, cache'[f][a].born)
  BY <1>3 DEF SourcesAreFresh
<1>4. \A f, base, born : Fresh(f, base, born) => Fresh(f, base, born)'
  BY DEF Fresh
<1> HIDE DEF Fresh
<1>5. /\ \A u \in Threads : \A i \in 1 .. Len(stack'[u]) : Fresh(stack'[u][i].f, stack'[u][i].now, stack'[u][i].born)
      /\ \A f \in DOMAIN Functions : \A a \in Arguments :
           cache'[f][a] # Nothing => cache'[f][a].time <= clock /\ Fresh(f, cache'[f][a].time, cache'[f][a].born)
  BY <1>2, <1>3
<1> QED
  BY <1>5 DEF SourcesAreFresh, Fresh

\* What a function may give to its caller is no older than the caller's own sources may be.
LEMMA FreshForCaller ==
  ASSUME NEW f \in DOMAIN Functions, NEW g \in Callers(f), NEW born \in SUBSET Sources,
         NEW time \in Nat, NEW began \in Nat, NEW earlier \in Nat, earlier <= began,
         Fresh(f, time, born), began - Ttl(f) <= time \/ ~Expires(f)
  PROVE  Fresh(g, earlier, born)
<1>1. g \in DOMAIN Functions /\ Ttl(f) \in Nat /\ Wait[f] \in Nat /\ Wait[g] \in Nat /\ Wait[f] = Ttl(f) + Wait[g]
  BY WaitFacts, TtlType, FunctionFacts
<1>2. ASSUME NEW source \in born
      PROVE  /\ started <= source[2]
             /\ Expires(source[1]) => Expires(g) /\ earlier - (Wait[source[1]] - Wait[g]) <= source[2]
  <2>1. source[1] \in DOMAIN Functions /\ source[2] \in Nat
    BY DEF Sources
  <2>2. started <= source[2]
    BY DEF Fresh
  <2>3. ASSUME Expires(source[1])
        PROVE  Expires(g) /\ earlier - (Wait[source[1]] - Wait[g]) <= source[2]
    <3>1. Expires(f) /\ time - (Wait[source[1]] - Wait[f]) <= source[2]
      BY <2>3 DEF Fresh
    <3>2. Expires(g)
      BY <3>1, FunctionFacts
    <3>3. Wait[source[1]] \in Nat
      BY <2>1, WaitFacts
    <3> QED
      BY <1>1, <2>1, <3>1, <3>2, <3>3
  <2> QED
    BY <2>2, <2>3
<1> QED
  BY <1>2 DEF Fresh

LEMMA FreshTogether ==
  ASSUME NEW f, NEW base, NEW one, NEW other, Fresh(f, base, one), Fresh(f, base, other)
  PROVE  Fresh(f, base, one \union other)
BY DEF Fresh

LEMMA NoneIsFresh == ASSUME NEW f, NEW base PROVE Fresh(f, base, {})
BY DEF Fresh

LEMMA FreshAfterReturn ==
  ASSUME CachesTypeOK, CallsAreNested, SourcesAreFresh, NEW t \in Threads, Busy(t),
         NEW ok \in BOOLEAN, NEW born \in SUBSET Sources, NEW time \in Nat,
         Returns(t, ok, born), Fresh(Top(t).f, time, born),
         Top(t).now - Ttl(Top(t).f) <= time \/ ~Expires(Top(t).f),
         clock' = clock, started' = started,
         \A f \in DOMAIN Functions : \A a \in Arguments : cache'[f][a] # Nothing =>
            \/ cache'[f][a] = cache[f][a]
            \/ cache'[f][a].time <= clock /\ Fresh(f, cache'[f][a].time, cache'[f][a].born)
  PROVE  SourcesAreFresh'
<1> DEFINE k == Len(stack[t]) - 1
<1>1. Len(stack[t]) \in Nat /\ Len(stack[t]) > 0
  BY StackFacts
<1>2. k \in 0 .. Len(stack[t]) /\ k \in 0 .. Len(stack[t]) - 1 /\ k + 1 = Len(stack[t])
  BY <1>1
<1>3. CutsTo(t, k, ok, born)
  BY ReturnsCuts
<1> HIDE DEF k
<1>4. ASSUME k > 0
      PROVE  Fresh(stack'[t][k].f, stack'[t][k].now, stack'[t][k].born)
  <2> DEFINE frame == stack[t][k]
  <2>1. k \in 1 .. Len(stack[t]) - 1 /\ k \in 1 .. Len(stack[t])
    BY <1>1, <1>2, <1>4
  <2>2. /\ frame \in Frames /\ Top(t) \in Frames
        /\ frame.f \in Callers(Top(t).f) /\ frame.now <= Top(t).now
    BY <1>2, <2>1, WaitingCalls DEF Top
  <2>3. frame.f \in DOMAIN Functions /\ Top(t).f \in DOMAIN Functions /\ frame.now \in Nat /\ Top(t).now \in Nat
    BY <2>2, FrameFacts
  <2>4. Fresh(frame.f, frame.now, born)
    BY <2>2, <2>3, FreshForCaller
  <2>5. Fresh(frame.f, frame.now, frame.born)
    BY <2>1 DEF SourcesAreFresh
  <2>6. Fresh(frame.f, frame.now, frame.born \union born)
    BY <2>4, <2>5, FreshTogether
  <2>7. stack'[t][k].f = frame.f /\ stack'[t][k].now = frame.now /\ stack'[t][k].born = frame.born \union born
    BY <1>2, <1>3, <1>4, AfterCutsTo
  <2> QED
    BY <2>6, <2>7
<1>5. Cut(t, k)
  BY <1>3 DEF CutsTo
<1> QED
  BY <1>2, <1>4, <1>5, FreshAfterCut

LEMMA FreshAfterRaise ==
  ASSUME CachesTypeOK, CallsAreNested, SourcesAreFresh, NEW t \in Threads, Busy(t), Raises(t),
         clock' = clock, started' = started, cache' = cache
  PROVE  SourcesAreFresh'
<1>1. PICK k \in 0 .. Len(stack[t]) - 1 : CutsTo(t, k, FALSE, {})
  BY RaisesCuts
<1>2. Len(stack[t]) \in Nat /\ k \in 0 .. Len(stack[t]) /\ (k > 0 => k \in 1 .. Len(stack[t]))
  BY StackFacts
<1>3. k > 0 => /\ stack'[t][k].f = stack[t][k].f /\ stack'[t][k].now = stack[t][k].now
               /\ stack'[t][k].born = stack[t][k].born \union {}
  <2>1. FALSE \in BOOLEAN /\ {} \in SUBSET Sources
    OBVIOUS
  <2> DEFINE none == {}
             no == FALSE
  <2> HIDE DEF none, no
  <2>2. CutsTo(t, k, no, none) /\ no \in BOOLEAN /\ none \in SUBSET Sources
    BY <1>1, <2>1 DEF none, no
  <2>3. k > 0 => /\ stack'[t][k].f = stack[t][k].f /\ stack'[t][k].now = stack[t][k].now
                 /\ stack'[t][k].born = stack[t][k].born \union none
    BY <2>2, AfterCutsTo
  <2> QED
    BY <2>3 DEF none
<1>4. k > 0 => Fresh(stack'[t][k].f, stack'[t][k].now, stack'[t][k].born)
  <2> HAVE k > 0
  <2>1. Fresh(stack[t][k].f, stack[t][k].now, stack[t][k].born)
    BY <1>2 DEF SourcesAreFresh
  <2>2. stack[t][k].born \union {} = stack[t][k].born
    OBVIOUS
  <2> QED
    BY <1>3, <2>1, <2>2
<1>5. Cut(t, k)
  BY <1>1 DEF CutsTo
<1> QED
  BY <1>2, <1>4, <1>5, FreshAfterCut

(***************************************************************************)
(* The number of entries.                                                  *)
(***************************************************************************)
LEMMA CachedFinite ==
  ASSUME NEW f
  PROVE  /\ IsFiniteSet(Cached(f)) /\ Cardinality(Cached(f)) \in Nat
         /\ IsFiniteSet(Evicting(f)) /\ Cardinality(Evicting(f)) \in Nat
         /\ IsFiniteSet(Cached(f)') /\ Cardinality(Cached(f)') \in Nat
         /\ IsFiniteSet(Evicting(f)') /\ Cardinality(Evicting(f)') \in Nat
<1>1. IsFiniteSet({Holding})
  BY FS_Singleton
<1>2. IsFiniteSet(Arguments) /\ IsFiniteSet(Threads)
  BY <1>1, CacheNumbers, FS_Union DEF Arguments
<1>3. /\ Cached(f) \subseteq Arguments /\ Evicting(f) \subseteq Threads
      /\ Cached(f)' \subseteq Arguments /\ Evicting(f)' \subseteq Threads
  BY DEF Cached, Evicting
<1>4. /\ IsFiniteSet(Cached(f)) /\ IsFiniteSet(Evicting(f))
      /\ IsFiniteSet(Cached(f)') /\ IsFiniteSet(Evicting(f)')
  BY <1>2, <1>3, FS_Subset
<1> QED
  BY <1>4, FS_CardinalityType

\* What is owed by one function.
Owed(f) == Cardinality(Cached(f)) <= Size(f) + raced + Cardinality(Evicting(f))

\* Other threads are where they were.
LEMMA OthersStay ==
  ASSUME NEW t \in Threads, \A u \in Threads \ {t} : stack'[u] = stack[u], NEW f
  PROVE  Evicting(f)' \ {t} = Evicting(f) \ {t}
<1>1. \A u \in Threads \ {t} : u \in Evicting(f)' <=> u \in Evicting(f)
  BY DEF Evicting, Busy, Top
<1>2. Evicting(f)' \subseteq Threads /\ Evicting(f) \subseteq Threads
  BY DEF Evicting
<1> QED
  BY <1>1, <1>2

\* Nothing is stored, and no one stops to owe an eviction.
LEMMA OwedStays ==
  ASSUME CachesTypeOK, CachesTypeOK', NEW f \in DOMAIN Functions, Owed(f), NEW t \in Threads,
         \A u \in Threads \ {t} : stack'[u] = stack[u],
         t \in Evicting(f) => t \in Evicting(f)',
         Cached(f)' \subseteq Cached(f), raced' >= raced
  PROVE  Owed(f)'
<1>1. Evicting(f) \subseteq Evicting(f)'
  BY OthersStay
<1>2. IsFiniteSet(Evicting(f)') /\ Cardinality(Evicting(f)') \in Nat /\ Cardinality(Cached(f)') \in Nat
  BY CachedFinite
<1>3. /\ IsFiniteSet(Cached(f)) /\ Cardinality(Cached(f)) \in Nat /\ Cardinality(Evicting(f)) \in Nat
  BY CachedFinite
<1>4. Cardinality(Evicting(f)) <= Cardinality(Evicting(f)')
  BY <1>1, <1>2, FS_Subset
<1>5. Cardinality(Cached(f)') <= Cardinality(Cached(f))
  BY <1>3, FS_Subset
<1>6. raced \in Nat /\ raced' \in Nat /\ Size(f) \in Nat
  BY SizeType DEF CachesTypeOK
<1>7. Cardinality(Cached(f)') <= Size(f) + raced' + Cardinality(Evicting(f)')
  BY <1>2, <1>3, <1>4, <1>5, <1>6 DEF Owed
<1> QED
  BY <1>7 DEF Owed

\* One is stored by a thread that comes to owe an eviction.
LEMMA OwedAfterStore ==
  ASSUME CachesTypeOK, CachesTypeOK', NEW f \in DOMAIN Functions, Owed(f), NEW t \in Threads, NEW a,
         \A u \in Threads \ {t} : stack'[u] = stack[u],
         t \notin Evicting(f), t \in Evicting(f)',
         Cached(f)' \subseteq Cached(f) \union {a}, raced' = raced
  PROVE  Owed(f)'
<1>1. Evicting(f)' = Evicting(f) \union {t}
  BY OthersStay
<1>2. Cardinality(Cached(f)') \in Nat
  BY CachedFinite
<1>3. /\ IsFiniteSet(Cached(f)) /\ Cardinality(Cached(f)) \in Nat
      /\ IsFiniteSet(Evicting(f)) /\ Cardinality(Evicting(f)) \in Nat
  BY CachedFinite
<1>4. Cardinality(Evicting(f)') = Cardinality(Evicting(f)) + 1
  BY <1>1, <1>3, FS_AddElement
<1>5. IsFiniteSet(Cached(f) \union {a}) /\ Cardinality(Cached(f) \union {a}) <= Cardinality(Cached(f)) + 1
  <2> DEFINE held == Cached(f)
  <2> HIDE DEF held
  <2>1. IsFiniteSet(held) /\ Cardinality(held) \in Nat
    BY <1>3 DEF held
  <2>2. IsFiniteSet(held \union {a}) /\ Cardinality(held \union {a}) = IF a \in held THEN Cardinality(held) ELSE Cardinality(held) + 1
    BY <2>1, FS_AddElement
  <2>3. Cardinality(held \union {a}) <= Cardinality(held) + 1
    BY <2>1, <2>2
  <2> QED
    BY <2>2, <2>3 DEF held
<1>6. Cardinality(Cached(f)') <= Cardinality(Cached(f) \union {a}) /\ Cardinality(Cached(f) \union {a}) \in Nat
  BY <1>5, FS_Subset, FS_CardinalityType
<1>7. raced \in Nat /\ Size(f) \in Nat
  BY SizeType DEF CachesTypeOK
<1>8. Cardinality(Cached(f)') <= Size(f) + raced' + Cardinality(Evicting(f)')
  BY <1>2, <1>3, <1>4, <1>5, <1>6, <1>7 DEF Owed
<1> QED
  BY <1>8 DEF Owed

\* One that owes an eviction makes it, or raises.
LEMMA OwedAfterEviction ==
  ASSUME CachesTypeOK, CachesTypeOK', NEW f \in DOMAIN Functions, Owed(f), NEW t \in Threads,
         \A u \in Threads \ {t} : stack'[u] = stack[u],
         t \in Evicting(f), t \notin Evicting(f)',
         \/ Cached(f)' = Cached(f) /\ raced' = raced + 1
         \/ raced' = raced /\ \E a \in Cached(f) : Cached(f)' = Cached(f) \ {a}
  PROVE  Owed(f)'
<1>1. Evicting(f)' = Evicting(f) \ {t}
  BY OthersStay
<1>2. Cardinality(Cached(f)') \in Nat /\ Cardinality(Evicting(f)') \in Nat
  BY CachedFinite
<1>3. /\ IsFiniteSet(Cached(f)) /\ Cardinality(Cached(f)) \in Nat
      /\ IsFiniteSet(Evicting(f)) /\ Cardinality(Evicting(f)) \in Nat
  BY CachedFinite
<1>4. Cardinality(Evicting(f)') = Cardinality(Evicting(f)) - 1
  BY <1>1, <1>3, FS_RemoveElement
<1>5. raced \in Nat /\ Size(f) \in Nat
  BY SizeType DEF CachesTypeOK
<1>6. CASE Cached(f)' = Cached(f) /\ raced' = raced + 1
  <2>1. Cardinality(Cached(f)') <= Size(f) + raced' + Cardinality(Evicting(f)')
    BY <1>2, <1>3, <1>4, <1>5, <1>6 DEF Owed
  <2> QED
    BY <2>1 DEF Owed
<1>7. CASE raced' = raced /\ \E a \in Cached(f) : Cached(f)' = Cached(f) \ {a}
  <2>1. PICK a \in Cached(f) : Cached(f)' = Cached(f) \ {a}
    BY <1>7
  <2>2. Cardinality(Cached(f)') = Cardinality(Cached(f)) - 1
    BY <1>3, <2>1, FS_RemoveElement
  <2>3. Cardinality(Cached(f)') <= Size(f) + raced' + Cardinality(Evicting(f)')
    BY <1>2, <1>3, <1>4, <1>5, <1>7, <2>2 DEF Owed
  <2> QED
    BY <2>3 DEF Owed
<1> QED
  BY <1>6, <1>7

\* No more are there than the size allows.
LEMMA OwedWithin ==
  ASSUME CachesTypeOK', NEW f \in DOMAIN Functions, Cardinality(Cached(f)') <= Size(f)
  PROVE  Owed(f)'
<1>1. Cardinality(Cached(f)') \in Nat /\ Cardinality(Evicting(f)') \in Nat
  BY CachedFinite
<1>2. raced' \in Nat /\ Size(f) \in Nat
  BY SizeType DEF CachesTypeOK
<1>3. Cardinality(Cached(f)') <= Size(f) + raced' + Cardinality(Evicting(f)')
  BY <1>1, <1>2
<1> QED
  BY <1>3 DEF Owed

LEMMA OwedAll == EvictionsAreOwed <=> \A f \in DOMAIN Functions : Owed(f)
BY DEF EvictionsAreOwed, Owed

(***************************************************************************)
(* What a step does to the calls of its thread.                            *)
(***************************************************************************)
CachesInv == CachesTypeOK /\ CallsAreNested /\ EvictionsAreOwed /\ SourcesAreFresh

\* The caches are as they were, or what is new in them is fresh.
KeepsCachesFresh ==
  \A f \in DOMAIN Functions : \A a \in Arguments : cache'[f][a] # Nothing =>
     \/ cache'[f][a] = cache[f][a]
     \/ cache'[f][a].time <= clock /\ Fresh(f, cache'[f][a].time, cache'[f][a].born)

OthersAreThere(t) == stack' \in [Threads -> Seq(Frames)] /\ \A u \in Threads \ {t} : stack'[u] = stack[u]

LEMMA AfterSet ==
  ASSUME CachesInv, NEW t \in Threads, Busy(t), NEW frame \in Frames, SetTop(t, frame),
         frame.f = Top(t).f, frame.now = Top(t).now, clock' = clock, started' = started,
         frame.at \in {"get", "delete", "count", "oldest", "evict"} => Expires(frame.f),
         Fresh(frame.f, frame.now, frame.born), KeepsCachesFresh
  PROVE  /\ OthersAreThere(t) /\ CallsAreNested' /\ SourcesAreFresh'
         /\ \A f : t \in Evicting(f)' <=> f = frame.f /\ frame.at \in {"count", "oldest", "evict"}
<1> DEFINE n == Len(stack[t])
<1>1. n \in Nat /\ n > 0 /\ n \in 0 .. Len(stack[t])
  BY StackFacts DEF CachesInv
<1>2. Cut(t, n) /\ Busy(t)' /\ Top(t)' = frame /\ stack'[t][n] = frame
  BY SetTopCuts DEF CachesInv
<1> HIDE DEF n
<1>3. CallsAreNested'
  BY <1>1, <1>2, NestedAfterCut DEF CachesInv
<1>4. SourcesAreFresh'
  BY <1>1, <1>2, FreshAfterCut DEF CachesInv, KeepsCachesFresh
<1>5. \A f : t \in Evicting(f)' <=> f = frame.f /\ frame.at \in {"count", "oldest", "evict"}
  BY <1>2 DEF Evicting
<1> QED
  BY <1>2, <1>3, <1>4, <1>5 DEF Cut, OthersAreThere

LEMMA AfterReturn ==
  ASSUME CachesInv, NEW t \in Threads, Busy(t),
         NEW ok \in BOOLEAN, NEW born \in SUBSET Sources, NEW time \in Nat,
         Returns(t, ok, born), Fresh(Top(t).f, time, born),
         Top(t).now - Ttl(Top(t).f) <= time \/ ~Expires(Top(t).f),
         clock' = clock, started' = started, KeepsCachesFresh
  PROVE  /\ OthersAreThere(t) /\ CallsAreNested' /\ SourcesAreFresh'
         /\ \A f : t \notin Evicting(f)'
<1> DEFINE k == Len(stack[t]) - 1
<1>1. k \in 0 .. Len(stack[t]) - 1
  BY StackFacts DEF CachesInv
<1>2. CutsTo(t, k, ok, born)
  BY ReturnsCuts DEF CachesInv
<1> HIDE DEF k
<1>3. CallsAreNested' /\ \A f : t \notin Evicting(f)'
  BY <1>1, <1>2, NestedAfterCutsTo, AfterCutsTo DEF CachesInv
<1>4. SourcesAreFresh'
  BY FreshAfterReturn DEF CachesInv, KeepsCachesFresh
<1> QED
  BY <1>2, <1>3, <1>4 DEF CutsTo, Cut, OthersAreThere

LEMMA AfterRaise ==
  ASSUME CachesInv, NEW t \in Threads, Busy(t), Raises(t),
         clock' = clock, started' = started, cache' = cache
  PROVE  /\ OthersAreThere(t) /\ CallsAreNested' /\ SourcesAreFresh'
         /\ \A f : t \notin Evicting(f)'
         /\ raced' = raced + 1 /\ raced' \in 0..MaxRaces
<1> DEFINE none == {}
           no == FALSE
<1>1. none \in SUBSET Sources /\ no \in BOOLEAN
  OBVIOUS
<1>2. raced' = raced + 1 /\ raced' \in 0..MaxRaces
  BY RaisesCuts DEF CachesInv
<1>3. PICK k \in 0 .. Len(stack[t]) - 1 : CutsTo(t, k, no, none)
  BY RaisesCuts DEF CachesInv
<1> HIDE DEF none, no
<1>4. CallsAreNested' /\ \A f : t \notin Evicting(f)'
  BY <1>1, <1>3, NestedAfterCutsTo, AfterCutsTo DEF CachesInv
<1>5. SourcesAreFresh'
  BY FreshAfterRaise DEF CachesInv
<1> QED
  BY <1>2, <1>3, <1>4, <1>5 DEF CutsTo, Cut, OthersAreThere

LEMMA NewCallFacts ==
  ASSUME clock \in Nat, NEW f \in DOMAIN Functions, NEW fund \in Funds
  PROVE  LET call == NewCall(f, fund)
         IN  call \in Frames /\ call.f = f /\ call.now = clock /\ call.at = "look" /\ call.born = {}
<1>1. ArgumentOf(f, fund) \in Arguments /\ fund \in Arguments
  BY DEF ArgumentOf, Arguments
<1> QED
  BY <1>1 DEF NewCall, Frames

LEMMA AfterCall ==
  ASSUME CachesInv, NEW t \in Threads, NEW f \in DOMAIN Functions, NEW fund \in Funds,
         stack' = [stack EXCEPT ![t] = Append(stack[t], NewCall(f, fund))],
         Busy(t) => /\ Top(t).at = "body" /\ Top(t).next \in DOMAIN Functions[Top(t).f].body
                    /\ Functions[Top(t).f].body[Top(t).next].does = "call"
                    /\ Functions[Top(t).f].body[Top(t).next].function = f,
         clock' = clock, started' = started, cache' = cache
  PROVE  /\ OthersAreThere(t) /\ CallsAreNested' /\ SourcesAreFresh'
         /\ \A g : t \notin Evicting(g)'
<1> DEFINE n == Len(stack[t])
           call == NewCall(f, fund)
           more == Append(stack[t], call)
<1>1. /\ stack[t] \in Seq(Frames) /\ n \in Nat /\ stack \in [Threads -> Seq(Frames)] /\ clock \in Nat
      /\ Busy(t) <=> n > 0
  BY StackFacts DEF CachesInv, CachesTypeOK
<1>2. call \in Frames /\ call.f = f /\ call.now = clock /\ call.at = "look" /\ call.born = {}
  BY <1>1, NewCallFacts
<1> HIDE DEF call
<1>3. /\ more \in Seq(Frames) /\ Len(more) = n + 1 /\ more[n + 1] = call
      /\ \A i \in 1 .. n : more[i] = stack[t][i]
  BY <1>1, <1>2
<1>4. stack' = [stack EXCEPT ![t] = more]
  BY DEF call
<1> HIDE DEF more
<1>5. stack'[t] = more /\ OthersAreThere(t)
  BY <1>1, <1>3, <1>4 DEF OthersAreThere
<1>6. \A g : t \notin Evicting(g)'
  BY <1>1, <1>2, <1>3, <1>5 DEF Evicting, Busy, Top
<1>7. ASSUME NEW u \in Threads, u # t
      PROVE  stack'[u] = stack[u]
  BY <1>5, <1>7 DEF OthersAreThere
<1> HIDE DEF n
<1>8. CallsAreNested'
  <2>1. ASSUME NEW i \in 1 .. Len(stack'[t])
        PROVE  LET frame == stack'[t][i] IN
               /\ frame.now <= clock'
               /\ i < Len(stack'[t]) =>
                    /\ frame.at = "body" /\ frame.next \in DOMAIN Functions[frame.f].body
                    /\ Functions[frame.f].body[frame.next].does = "call"
                    /\ Functions[frame.f].body[frame.next].function = stack'[t][i + 1].f
                    /\ frame.now <= stack'[t][i + 1].now
               /\ frame.at \in {"get", "delete", "count", "oldest", "evict"} => Expires(frame.f)
    <3>1. Len(stack'[t]) = n + 1 /\ i \in 1 .. n + 1
      BY <1>3, <1>5, <2>1
    <3>2. CASE i = n + 1
      <4>1. stack'[t][i] = call
        BY <1>3, <1>5, <3>2
      <4> QED
        BY <1>1, <1>2, <3>1, <3>2, <4>1
    <3>3. CASE i = n /\ i > 0
      <4>1. stack'[t][i] = stack[t][i] /\ stack'[t][i + 1] = call /\ stack[t][i] = Top(t) /\ Busy(t)
        BY <1>1, <1>3, <1>5, <3>3 DEF Top, n
      <4>2. stack[t][i].now <= clock
        BY <1>1, <3>3 DEF CachesInv, CallsAreNested, n
      <4> QED
        BY <1>2, <4>1, <4>2
    <3>4. CASE i < n
      <4>1. i \in 1 .. n /\ i + 1 \in 1 .. n /\ i < Len(stack[t]) /\ i \in 1 .. Len(stack[t])
        BY <1>1, <3>1, <3>4 DEF n
      <4>2. stack'[t][i] = stack[t][i] /\ stack'[t][i + 1] = stack[t][i + 1]
        BY <1>3, <1>5, <4>1
      <4> QED
        BY <4>1, <4>2 DEF CachesInv, CallsAreNested
    <3> QED
      BY <1>1, <3>1, <3>2, <3>3, <3>4
  <2>2. ASSUME NEW u \in Threads, u # t, NEW i \in 1 .. Len(stack'[u])
        PROVE  LET frame == stack'[u][i] IN
               /\ frame.now <= clock'
               /\ i < Len(stack'[u]) =>
                    /\ frame.at = "body" /\ frame.next \in DOMAIN Functions[frame.f].body
                    /\ Functions[frame.f].body[frame.next].does = "call"
                    /\ Functions[frame.f].body[frame.next].function = stack'[u][i + 1].f
                    /\ frame.now <= stack'[u][i + 1].now
               /\ frame.at \in {"get", "delete", "count", "oldest", "evict"} => Expires(frame.f)
    BY <1>7, <2>2 DEF CachesInv, CallsAreNested
  <2>3. ASSUME NEW u \in Threads, NEW i \in 1 .. Len(stack'[u])
        PROVE  LET frame == stack'[u][i] IN
               /\ frame.now <= clock'
               /\ i < Len(stack'[u]) =>
                    /\ frame.at = "body" /\ frame.next \in DOMAIN Functions[frame.f].body
                    /\ Functions[frame.f].body[frame.next].does = "call"
                    /\ Functions[frame.f].body[frame.next].function = stack'[u][i + 1].f
                    /\ frame.now <= stack'[u][i + 1].now
               /\ frame.at \in {"get", "delete", "count", "oldest", "evict"} => Expires(frame.f)
    <3>1. CASE u = t
      BY <2>1, <2>3, <3>1
    <3>2. CASE u # t
      BY <2>2, <2>3, <3>2
    <3> QED
      BY <3>1, <3>2
  <2> QED
    BY <2>3 DEF CallsAreNested
<1>9. SourcesAreFresh'
  <2>1. ASSUME NEW u \in Threads, NEW i \in 1 .. Len(stack'[u])
        PROVE  Fresh(stack'[u][i].f, stack'[u][i].now, stack'[u][i].born)
    <3>1. CASE u # t
      BY <1>7, <3>1 DEF CachesInv, SourcesAreFresh
    <3>2. CASE u = t /\ i = n + 1
      BY <1>2, <1>3, <1>5, <3>2, NoneIsFresh
    <3>3. CASE u = t /\ i # n + 1
      <4>1. i \in 1 .. n /\ i \in 1 .. Len(stack[t])
        BY <1>1, <1>3, <1>5, <3>3 DEF n
      <4>2. stack'[t][i] = stack[t][i]
        BY <1>3, <1>5, <4>1
      <4> QED
        BY <3>3, <4>1, <4>2 DEF CachesInv, SourcesAreFresh
    <3> QED
      BY <3>1, <3>2, <3>3
  <2>2. \A g, base, born : Fresh(g, base, born) => Fresh(g, base, born)'
    BY DEF Fresh
  <2>3. \A g \in DOMAIN Functions : \A a \in Arguments :
           cache'[g][a] # Nothing => cache'[g][a].time <= clock' /\ Fresh(g, cache'[g][a].time, cache'[g][a].born)
    BY DEF CachesInv, SourcesAreFresh
  <2> QED
    BY <2>1, <2>2, <2>3 DEF SourcesAreFresh, Fresh
<1> QED
  BY <1>5, <1>6, <1>8, <1>9

(***************************************************************************)
(* The steps.                                                              *)
(***************************************************************************)
\* Who has no eviction to make, and stores nothing, leaves nothing owed.
LEMMA OwedByNone ==
  ASSUME CachesInv, CachesTypeOK', NEW t \in Threads, OthersAreThere(t),
         ~Busy(t) \/ Top(t).at \in {"look", "get", "delete", "body"},
         \A f \in DOMAIN Functions : Cached(f)' \subseteq Cached(f), raced' >= raced
  PROVE  EvictionsAreOwed'
<1>1. ASSUME NEW f \in DOMAIN Functions PROVE Owed(f)'
  <2>1. Owed(f) /\ t \notin Evicting(f)
    BY OwedAll, NotEvicting DEF CachesInv
  <2> QED
    BY <2>1, OwedStays DEF CachesInv, OthersAreThere
<1> QED
  BY <1>1 DEF EvictionsAreOwed, Owed

LEMMA SameCache ==
  ASSUME cache' = cache
  PROVE  /\ KeepsCachesFresh
         /\ \A f : Cached(f)' = Cached(f)
BY DEF KeepsCachesFresh, Cached

LEMMA StepTypes ==
  ASSUME CachesTypeOK, NEW t \in Threads, OthersAreThere(t), clock' = clock, started' = started,
         scenario' = scenario, restarts' = restarts,
         cache' \in [DOMAIN Functions -> [Arguments -> {Nothing} \union Results]],
         raced' \in 0..MaxRaces, outages' \in 0..MaxOutages
  PROVE  CachesTypeOK'
BY DEF CachesTypeOK, OthersAreThere

LEMMA RequestKeeps ==
  ASSUME CachesInv, NEW t \in Threads, Request(t)
  PROVE  CachesInv'
<1>1. PICK f \in scenario.functions, fund \in scenario.funds : stack' = [stack EXCEPT ![t] = <<NewCall(f, fund)>>]
  BY DEF Request
<1>2. f \in DOMAIN Functions /\ fund \in Funds
  BY CachesAssumption DEF CachesInv, CachesTypeOK
<1>3. ~Busy(t) /\ stack[t] = <<>>
  BY DEF Request, Busy
<1>4. stack' = [stack EXCEPT ![t] = Append(stack[t], NewCall(f, fund))]
  <2>1. Append(<<>>, NewCall(f, fund)) = <<NewCall(f, fund)>>
    OBVIOUS
  <2> QED
    BY <1>1, <1>3, <2>1
<1>5. /\ clock' = clock /\ scenario' = scenario /\ cache' = cache /\ raced' = raced
      /\ started' = started /\ outages' = outages /\ restarts' = restarts
  BY DEF Request
<1>6. OthersAreThere(t) /\ CallsAreNested' /\ SourcesAreFresh'
  BY <1>2, <1>3, <1>4, <1>5, AfterCall
<1>7. CachesTypeOK'
  BY <1>5, <1>6, StepTypes DEF CachesInv, CachesTypeOK
<1>8. raced' >= raced
  BY <1>5 DEF CachesInv, CachesTypeOK
<1>9. EvictionsAreOwed'
  BY <1>3, <1>5, <1>6, <1>7, <1>8, SameCache, OwedByNone
<1> QED
  BY <1>6, <1>7, <1>9 DEF CachesInv

LEMMA TopFacts ==
  ASSUME CachesInv, NEW t \in Threads, Busy(t)
  PROVE  /\ Top(t) \in Frames /\ Top(t).f \in DOMAIN Functions /\ Top(t).arg \in Arguments
         /\ Top(t).now \in Nat /\ Top(t).now <= clock /\ Top(t).ok \in BOOLEAN /\ Top(t).born \in SUBSET Sources
         /\ Fresh(Top(t).f, Top(t).now, Top(t).born)
         /\ Top(t).at \in {"get", "delete", "count", "oldest", "evict"} => Expires(Top(t).f)
<1>1. Len(stack[t]) \in 1 .. Len(stack[t]) /\ Top(t) \in Frames
  BY StackFacts DEF CachesInv
<1>2. /\ Top(t).now <= clock
      /\ Top(t).at \in {"get", "delete", "count", "oldest", "evict"} => Expires(Top(t).f)
  BY <1>1 DEF CachesInv, CallsAreNested, Top
<1>3. Fresh(Top(t).f, Top(t).now, Top(t).born)
  BY <1>1 DEF CachesInv, SourcesAreFresh, Top
<1> QED
  BY <1>1, <1>2, <1>3, FrameFacts

LEMMA EntryFacts ==
  ASSUME CachesInv, NEW t \in Threads, Busy(t), Entry(t) # Nothing
  PROVE  /\ Entry(t).ok \in BOOLEAN /\ Entry(t).born \in SUBSET Sources /\ Entry(t).time \in Nat
         /\ Fresh(Top(t).f, Entry(t).time, Entry(t).born)
<1>1. Top(t).f \in DOMAIN Functions /\ Top(t).arg \in Arguments
  BY TopFacts
<1>2. cache[Top(t).f][Top(t).arg] \in Results
  BY <1>1 DEF CachesInv, CachesTypeOK, Entry
<1>3. Fresh(Top(t).f, cache[Top(t).f][Top(t).arg].time, cache[Top(t).f][Top(t).arg].born)
  BY <1>1 DEF CachesInv, SourcesAreFresh, Entry
<1> QED
  BY <1>2, <1>3 DEF Entry, Results

LEMMA PlacedFrame ==
  ASSUME NEW frame \in Frames,
         NEW place \in {"look", "get", "delete", "body", "count", "oldest", "evict"}
  PROVE  LET new == [frame EXCEPT !.at = place]
         IN  /\ new \in Frames /\ new.f = frame.f /\ new.now = frame.now /\ new.born = frame.born
             /\ new.at = place
BY DEF Frames

\* A thread that goes to another place of the wrapper.
LEMMA AfterGoTo ==
  ASSUME CachesInv, NEW t \in Threads, Busy(t),
         NEW place \in {"look", "get", "delete", "body", "count", "oldest", "evict"}, GoTo(t, place),
         place \in {"get", "delete", "count", "oldest", "evict"} => Expires(Top(t).f),
         clock' = clock, started' = started, KeepsCachesFresh
  PROVE  /\ OthersAreThere(t) /\ CallsAreNested' /\ SourcesAreFresh'
         /\ \A f : t \in Evicting(f)' <=> f = Top(t).f /\ place \in {"count", "oldest", "evict"}
<1> DEFINE frame == [Top(t) EXCEPT !.at = place]
<1>1. Top(t) \in Frames /\ Fresh(Top(t).f, Top(t).now, Top(t).born)
  BY TopFacts
<1>2. /\ frame \in Frames /\ frame.f = Top(t).f /\ frame.now = Top(t).now /\ frame.born = Top(t).born
      /\ frame.at = place
  BY <1>1, PlacedFrame
<1>3. SetTop(t, frame)
  BY DEF GoTo
<1> HIDE DEF frame
<1> QED
  BY <1>1, <1>2, <1>3, AfterSet

LEMMA LookKeeps ==
  ASSUME CachesInv, NEW t \in Threads, Look(t)
  PROVE  CachesInv'
<1>1. Busy(t) /\ Top(t).at = "look"
  BY DEF Look, At
<1>2. /\ clock' = clock /\ scenario' = scenario /\ cache' = cache /\ raced' = raced
      /\ started' = started /\ outages' = outages /\ restarts' = restarts
  BY DEF Look
<1>3. OthersAreThere(t) /\ CallsAreNested' /\ SourcesAreFresh'
  <2>1. CASE Entry(t) = Nothing
    <3>1. GoTo(t, "body")
      BY <2>1 DEF Look
    <3> QED
      BY <1>1, <1>2, <3>1, AfterGoTo, SameCache
  <2>2. CASE Entry(t) # Nothing /\ Expires(Top(t).f)
    <3>1. GoTo(t, "get")
      BY <2>2 DEF Look
    <3> QED
      BY <1>1, <1>2, <2>2, <3>1, AfterGoTo, SameCache
  <2>3. CASE Entry(t) # Nothing /\ ~Expires(Top(t).f)
    <3>1. Returns(t, Entry(t).ok, Entry(t).born)
      BY <2>3 DEF Look
    <3> QED
      BY <1>1, <1>2, <2>3, <3>1, EntryFacts, AfterReturn, SameCache
  <2> QED
    BY <2>1, <2>2, <2>3
<1>4. CachesTypeOK'
  BY <1>2, <1>3, StepTypes DEF CachesInv, CachesTypeOK
<1>5. raced' >= raced
  BY <1>2 DEF CachesInv, CachesTypeOK
<1>6. EvictionsAreOwed'
  BY <1>1, <1>2, <1>3, <1>4, <1>5, SameCache, OwedByNone
<1> QED
  BY <1>3, <1>4, <1>6 DEF CachesInv

LEMMA GetKeeps ==
  ASSUME CachesInv, NEW t \in Threads, Get(t)
  PROVE  CachesInv'
<1>1. Busy(t) /\ Top(t).at = "get" /\ Expires(Top(t).f)
  BY TopFacts DEF Get, At
<1>2. /\ clock' = clock /\ scenario' = scenario /\ cache' = cache
      /\ started' = started /\ outages' = outages /\ restarts' = restarts
  BY DEF Get
<1>3. raced \in 0..MaxRaces /\ MaxRaces \in Nat
  BY CacheNumbers DEF CachesInv, CachesTypeOK
<1>4. /\ OthersAreThere(t) /\ CallsAreNested' /\ SourcesAreFresh'
      /\ raced' >= raced /\ raced' \in 0..MaxRaces
  <2>1. CASE Raises(t)
    BY <1>1, <1>2, <1>3, <2>1, AfterRaise
  <2>2. CASE /\ Entry(t) # Nothing /\ Top(t).now - Entry(t).time < Ttl(Top(t).f)
             /\ Returns(t, Entry(t).ok, Entry(t).born) /\ UNCHANGED raced
    <3>1. Top(t).now - Ttl(Top(t).f) <= Entry(t).time
      BY <1>1, <2>2, EntryFacts, TopFacts, TtlType
    <3>2. OthersAreThere(t) /\ CallsAreNested' /\ SourcesAreFresh'
      BY <1>1, <1>2, <2>2, <3>1, EntryFacts, AfterReturn, SameCache
    <3> QED
      BY <1>3, <2>2, <3>2
  <2>3. CASE GoTo(t, "delete") /\ UNCHANGED raced
    BY <1>1, <1>2, <1>3, <2>3, AfterGoTo, SameCache
  <2> QED
    BY <2>1, <2>2, <2>3 DEF Get
<1>5. CachesTypeOK'
  BY <1>2, <1>4, StepTypes DEF CachesInv, CachesTypeOK
<1>6. EvictionsAreOwed'
  BY <1>1, <1>2, <1>4, <1>5, SameCache, OwedByNone
<1> QED
  BY <1>4, <1>5, <1>6 DEF CachesInv

\* An entry that goes.
LEMMA Uncached ==
  ASSUME CachesTypeOK, NEW f \in DOMAIN Functions, NEW a \in Arguments,
         cache' = [cache EXCEPT ![f][a] = Nothing]
  PROVE  /\ cache' \in [DOMAIN Functions -> [Arguments -> {Nothing} \union Results]]
         /\ KeepsCachesFresh
         /\ Cached(f)' = Cached(f) \ {a}
         /\ \A g \in DOMAIN Functions \ {f} : Cached(g)' = Cached(g)
<1>1. cache \in [DOMAIN Functions -> [Arguments -> {Nothing} \union Results]]
  BY DEF CachesTypeOK
<1>2. cache' \in [DOMAIN Functions -> [Arguments -> {Nothing} \union Results]]
  BY <1>1
<1>3. \A g \in DOMAIN Functions : \A b \in Arguments :
         cache'[g][b] = IF g = f /\ b = a THEN Nothing ELSE cache[g][b]
  BY <1>1
<1>4. KeepsCachesFresh
  BY <1>3 DEF KeepsCachesFresh
<1>5. Cached(f)' = Cached(f) \ {a}
  BY <1>3 DEF Cached
<1>6. \A g \in DOMAIN Functions \ {f} : Cached(g)' = Cached(g)
  BY <1>3 DEF Cached
<1> QED
  BY <1>2, <1>4, <1>5, <1>6

LEMMA DeleteKeeps ==
  ASSUME CachesInv, NEW t \in Threads, Delete(t)
  PROVE  CachesInv'
<1>1. Busy(t) /\ Top(t).at = "delete" /\ Top(t).f \in DOMAIN Functions /\ Top(t).arg \in Arguments
  BY TopFacts DEF Delete, At
<1>2. /\ clock' = clock /\ scenario' = scenario
      /\ started' = started /\ outages' = outages /\ restarts' = restarts
  BY DEF Delete
<1>3. raced \in 0..MaxRaces /\ MaxRaces \in Nat
  BY CacheNumbers DEF CachesInv, CachesTypeOK
<1>4. /\ OthersAreThere(t) /\ CallsAreNested' /\ SourcesAreFresh'
      /\ raced' >= raced /\ raced' \in 0..MaxRaces
      /\ cache' \in [DOMAIN Functions -> [Arguments -> {Nothing} \union Results]]
      /\ \A f \in DOMAIN Functions : Cached(f)' \subseteq Cached(f)
  <2>1. CASE Raises(t) /\ UNCHANGED cache
    <3>1. cache \in [DOMAIN Functions -> [Arguments -> {Nothing} \union Results]]
      BY DEF CachesInv, CachesTypeOK
    <3>2. \A f \in DOMAIN Functions : Cached(f)' \subseteq Cached(f)
      BY <2>1, SameCache
    <3> QED
      BY <1>1, <1>2, <1>3, <2>1, <3>1, <3>2, AfterRaise
  <2>2. CASE /\ cache' = [cache EXCEPT ![Top(t).f][Top(t).arg] = Nothing]
             /\ GoTo(t, "body") /\ UNCHANGED raced
    <3>1. /\ cache' \in [DOMAIN Functions -> [Arguments -> {Nothing} \union Results]]
          /\ KeepsCachesFresh /\ \A f \in DOMAIN Functions : Cached(f)' \subseteq Cached(f)
      BY <1>1, <2>2, Uncached DEF CachesInv
    <3>2. OthersAreThere(t) /\ CallsAreNested' /\ SourcesAreFresh'
      BY <1>1, <1>2, <2>2, <3>1, AfterGoTo
    <3> QED
      BY <1>3, <2>2, <3>1, <3>2
  <2> QED
    BY <2>1, <2>2 DEF Delete
<1>5. CachesTypeOK'
  BY <1>2, <1>4, StepTypes DEF CachesInv, CachesTypeOK
<1>6. EvictionsAreOwed'
  BY <1>1, <1>4, <1>5, OwedByNone
<1> QED
  BY <1>4, <1>5, <1>6 DEF CachesInv

LEMMA BodyKeeps ==
  ASSUME CachesInv, NEW t \in Threads, Body(t)
  PROVE  CachesInv'
<1> DEFINE f == Top(t).f
           step == Functions[f].body[Top(t).next]
<1>1. Busy(t) /\ Top(t).at = "body" /\ Top(t) \in Frames /\ f \in DOMAIN Functions
  BY TopFacts DEF Body, At
<1>2. /\ clock' = clock /\ scenario' = scenario /\ cache' = cache /\ raced' = raced
      /\ started' = started /\ restarts' = restarts
  BY DEF Body
<1>3. Top(t).next \in DOMAIN Functions[f].body /\ step \in Steps
  <2>1. Functions[f].body \in Seq(Steps)
    BY <1>1, FunctionFacts
  <2>2. Top(t).next \in Nat \ {0} /\ ~(Top(t).next > Len(Functions[f].body))
    BY <1>1, FrameFacts DEF Body, Computed
  <2> QED
    BY <2>1, <2>2
<1>4. /\ clock \in Nat /\ started \in 0..clock /\ raced \in 0..MaxRaces /\ outages \in 0..MaxOutages
      /\ MaxRaces \in Nat /\ MaxOutages \in Nat
  BY CacheNumbers DEF CachesInv, CachesTypeOK
<1>5. OthersAreThere(t) /\ CallsAreNested' /\ SourcesAreFresh' /\ outages' \in 0..MaxOutages
  <2>1. ASSUME NEW ok \in BOOLEAN,
               IF ok THEN UNCHANGED outages ELSE outages < MaxOutages /\ outages' = outages + 1,
               SetTop(t, [Top(t) EXCEPT !.next = @ + 1, !.ok = ok, !.born = {<<f, clock>>}])
        PROVE  OthersAreThere(t) /\ CallsAreNested' /\ SourcesAreFresh' /\ outages' \in 0..MaxOutages
    <3> DEFINE born == {<<f, clock>>}
               frame == [Top(t) EXCEPT !.next = @ + 1, !.ok = ok, !.born = born]
    <3>1. born \in SUBSET Sources
      BY <1>1, <1>4 DEF Sources
    <3>2. SetTop(t, frame)
      BY <2>1
    <3>3. Fresh(f, Top(t).now, born)
      <4>1. Wait[f] - Wait[f] = 0 /\ Top(t).now \in Nat /\ Top(t).now <= clock /\ started <= clock
        BY <1>1, <1>4, TopFacts, WaitFacts
      <4> QED
        BY <1>4, <4>1 DEF Fresh
    <3> HIDE DEF born
    <3>4. /\ frame \in Frames /\ frame.f = f /\ frame.now = Top(t).now /\ frame.born = born
          /\ frame.at = "body"
      <4> DEFINE top == Top(t)
      <4>1. top \in Frames /\ top.at = "body"
        BY <1>1
      <4> HIDE DEF top
      <4>2. top.next + 1 \in Nat \ {0}
        BY <4>1, FrameFacts
      <4> DEFINE new == [top EXCEPT !.next = top.next + 1, !.ok = ok, !.born = born]
      <4>3. new.f = top.f /\ new.now = top.now /\ new.born = born /\ new.at = top.at
        BY <4>1 DEF Frames
      <4>4. new \in Frames
        BY <4>1, <4>2, <3>1 DEF Frames
      <4> QED
        BY <4>1, <4>3, <4>4 DEF top
    <3> HIDE DEF frame
    <3>5. OthersAreThere(t) /\ CallsAreNested' /\ SourcesAreFresh'
      BY <1>1, <1>2, <3>2, <3>3, <3>4, AfterSet, SameCache
    <3>6. outages' \in 0..MaxOutages
      BY <1>4, <2>1
    <3> QED
      BY <3>5, <3>6
  <2>2. CASE /\ step.does = "call"
             /\ stack' = [stack EXCEPT ![t] = Append(@, NewCall(step.function, Top(t).fund))]
             /\ UNCHANGED outages
    <3>1. step.function \in DOMAIN Functions
      BY <1>3, <2>2 DEF Steps
    <3>2. Top(t).fund \in Funds
      BY <1>1, FrameFacts
    <3>3. stack' = [stack EXCEPT ![t] = Append(stack[t], NewCall(step.function, Top(t).fund))]
      BY <2>2
    <3>4. OthersAreThere(t) /\ CallsAreNested' /\ SourcesAreFresh'
      BY <1>1, <1>2, <1>3, <2>2, <3>1, <3>2, <3>3, AfterCall
    <3> QED
      BY <1>4, <2>2, <3>4
  <2> QED
    BY <2>1, <2>2 DEF Body
<1>6. CachesTypeOK'
  BY <1>2, <1>5, StepTypes DEF CachesInv, CachesTypeOK
<1>7. raced' >= raced
  BY <1>2, <1>4
<1>8. EvictionsAreOwed'
  BY <1>1, <1>2, <1>5, <1>6, <1>7, SameCache, OwedByNone
<1> QED
  BY <1>5, <1>6, <1>8 DEF CachesInv

\* The result that a thread stores is fresh.
LEMMA ResultFacts ==
  ASSUME CachesInv, NEW t \in Threads, Busy(t)
  PROVE  /\ Result(t) \in Results /\ Result(t) # Nothing /\ Result(t).time <= clock
         /\ Fresh(Top(t).f, Result(t).time, Result(t).born)
<1>1. /\ Result(t) \in Results /\ Result(t).is = "result" /\ Result(t).time = Top(t).now
      /\ Result(t).born = Top(t).born
  BY TopFacts DEF Result, Results
<1>2. Result(t) # Nothing
  BY <1>1 DEF Nothing
<1> QED
  BY <1>1, <1>2, TopFacts

\* Entries of f that are as they were, gone, or a new result.
LEMMA Stored ==
  ASSUME CachesTypeOK, NEW f \in DOMAIN Functions, NEW result,
         result.time <= clock, Fresh(f, result.time, result.born),
         NEW new \in [Arguments -> {Nothing} \union Results],
         cache' = [cache EXCEPT ![f] = new],
         \A a \in Arguments : new[a] = cache[f][a] \/ new[a] = Nothing \/ new[a] = result
  PROVE  /\ cache' \in [DOMAIN Functions -> [Arguments -> {Nothing} \union Results]]
         /\ KeepsCachesFresh
         /\ Cached(f)' = {a \in Arguments : new[a] # Nothing}
         /\ \A g \in DOMAIN Functions \ {f} : Cached(g)' = Cached(g)
<1>1. cache \in [DOMAIN Functions -> [Arguments -> {Nothing} \union Results]]
  BY DEF CachesTypeOK
<1>2. cache' \in [DOMAIN Functions -> [Arguments -> {Nothing} \union Results]]
  BY <1>1
<1>3. \A g \in DOMAIN Functions : cache'[g] = IF g = f THEN new ELSE cache[g]
  BY <1>1
<1>5. KeepsCachesFresh
  BY <1>3 DEF KeepsCachesFresh
<1>6. Cached(f)' = {a \in Arguments : new[a] # Nothing}
  BY <1>1, <1>3 DEF Cached
<1>7. \A g \in DOMAIN Functions \ {f} : Cached(g)' = Cached(g)
  BY <1>3 DEF Cached
<1> QED
  BY <1>2, <1>5, <1>6, <1>7

LEMMA StoreExpiringKeeps ==
  ASSUME CachesInv, NEW t \in Threads, Store(t), Expires(Top(t).f)
  PROVE  CachesInv'
<1>f. PICK f : f = Top(t).f
  OBVIOUS
<1>a. PICK a : a = Top(t).arg
  OBVIOUS
<1> DEFINE new == [cache[f] EXCEPT ![a] = Result(t)]
<1>1. Busy(t) /\ Top(t).at = "body" /\ f \in DOMAIN Functions /\ a \in Arguments
  BY <1>f, <1>a, TopFacts DEF Store, At
<1>2. /\ clock' = clock /\ scenario' = scenario /\ raced' = raced
      /\ started' = started /\ outages' = outages /\ restarts' = restarts
  BY DEF Store
<1>3. GoTo(t, "count") /\ cache' = [cache EXCEPT ![f][a] = Result(t)]
  BY <1>f, <1>a DEF Store
<1>r. f \in DOMAIN Functions /\ Result(t).time <= clock /\ Fresh(f, Result(t).time, Result(t).born)
  BY <1>1, <1>f, ResultFacts
<1>4. cache' = [cache EXCEPT ![f] = new]
  BY <1>3
<1>5. cache[f] \in [Arguments -> {Nothing} \union Results]
  BY <1>1 DEF CachesInv, CachesTypeOK
<1>6. new \in [Arguments -> {Nothing} \union Results] /\ \A b \in Arguments : new[b] = IF b = a THEN Result(t) ELSE cache[f][b]
  BY <1>1, <1>5, ResultFacts
<1> HIDE DEF new
<1>7. /\ cache' \in [DOMAIN Functions -> [Arguments -> {Nothing} \union Results]]
      /\ KeepsCachesFresh
      /\ Cached(f)' = {b \in Arguments : new[b] # Nothing}
      /\ \A g \in DOMAIN Functions \ {f} : Cached(g)' = Cached(g)
  <2>1. \A b \in Arguments : new[b] = cache[f][b] \/ new[b] = Nothing \/ new[b] = Result(t)
    BY <1>6
  <2>2. new \in [Arguments -> {Nothing} \union Results]
    BY <1>6
  <2> QED
    BY <1>4, <1>r, <2>1, <2>2, Stored DEF CachesInv
<1>8. Cached(f)' \subseteq Cached(f) \union {a}
  BY <1>6, <1>7 DEF Cached
<1>9. /\ OthersAreThere(t) /\ CallsAreNested' /\ SourcesAreFresh'
      /\ \A g : t \in Evicting(g)' <=> g = f
  BY <1>1, <1>f, <1>2, <1>3, <1>7, AfterGoTo
<1>10. CachesTypeOK'
  BY <1>2, <1>7, <1>9, StepTypes DEF CachesInv, CachesTypeOK
<1>11. raced' >= raced
  BY <1>2 DEF CachesInv, CachesTypeOK
<1>12. ASSUME NEW g \in DOMAIN Functions PROVE Owed(g)'
  <2>1. Owed(g) /\ t \notin Evicting(g)
    BY <1>1, OwedAll, NotEvicting DEF CachesInv
  <2>2. CASE g = f
    BY <1>2, <1>8, <1>9, <1>10, <2>1, <2>2, OwedAfterStore DEF CachesInv, OthersAreThere
  <2>3. CASE g # f
    <3>1. Cached(g)' \subseteq Cached(g)
      BY <1>7, <2>3
    <3> QED
      BY <1>9, <1>10, <1>11, <2>1, <3>1, OwedStays DEF CachesInv, OthersAreThere
  <2> QED
    BY <2>2, <2>3
<1> QED
  BY <1>9, <1>10, <1>12 DEF CachesInv, EvictionsAreOwed, Owed

\* lru_cache keeps what another thread has stored meanwhile.
LEMMA StoreBesideKeeps ==
  ASSUME CachesInv, NEW t \in Threads, Store(t), ~Expires(Top(t).f), Entry(t) # Nothing
  PROVE  CachesInv'
<1>1. Busy(t) /\ Top(t).at = "body"
  BY DEF Store, At
<1>2. /\ clock' = clock /\ scenario' = scenario /\ cache' = cache /\ raced' = raced
      /\ started' = started /\ outages' = outages /\ restarts' = restarts
  BY DEF Store
<1>3. Returns(t, Top(t).ok, Top(t).born)
  BY DEF Store
<1>4. OthersAreThere(t) /\ CallsAreNested' /\ SourcesAreFresh'
  BY <1>1, <1>2, <1>3, TopFacts, AfterReturn, SameCache
<1>5. CachesTypeOK'
  BY <1>2, <1>4, StepTypes DEF CachesInv, CachesTypeOK
<1>6. raced' >= raced
  BY <1>2 DEF CachesInv, CachesTypeOK
<1>7. EvictionsAreOwed'
  BY <1>1, <1>2, <1>4, <1>5, <1>6, SameCache, OwedByNone
<1> QED
  BY <1>4, <1>5, <1>7 DEF CachesInv

\* lru_cache makes room for what it keeps.
LEMMA StoreLastingKeeps ==
  ASSUME CachesInv, NEW t \in Threads, Store(t), ~Expires(Top(t).f), Entry(t) = Nothing
  PROVE  CachesInv'
<1>f. PICK f : f = Top(t).f
  OBVIOUS
<1>a. PICK a : a = Top(t).arg
  OBVIOUS
<1>1. Busy(t) /\ Top(t).at = "body" /\ f \in DOMAIN Functions /\ a \in Arguments
  BY <1>f, <1>a, TopFacts DEF Store, At
<1>2. /\ clock' = clock /\ scenario' = scenario /\ raced' = raced
      /\ started' = started /\ outages' = outages /\ restarts' = restarts
  BY DEF Store
<1>3. PICK dropped \in SUBSET (Cached(f) \ {a}) :
         /\ IF Cardinality(Cached(f) \union {a}) > Size(f) THEN Cardinality(dropped) = 1 ELSE dropped = {}
         /\ cache' = [cache EXCEPT ![f] =
                [b \in Arguments |-> IF b = a THEN Result(t) ELSE IF b \in dropped THEN Nothing ELSE @[b]]]
  BY <1>f, <1>a DEF Store
<1>4. Returns(t, Top(t).ok, Top(t).born)
  BY DEF Store
<1> DEFINE new == [b \in Arguments |-> IF b = a THEN Result(t) ELSE IF b \in dropped THEN Nothing ELSE cache[f][b]]
<1>5. cache \in [DOMAIN Functions -> [Arguments -> {Nothing} \union Results]]
  BY DEF CachesInv, CachesTypeOK
<1>r. f \in DOMAIN Functions /\ Result(t).time <= clock /\ Fresh(f, Result(t).time, Result(t).born)
  BY <1>1, <1>f, ResultFacts
<1>6. cache' = [cache EXCEPT ![f] = new]
  BY <1>3
<1>7. new \in [Arguments -> {Nothing} \union Results]
  BY <1>1, <1>5, ResultFacts
<1>8. \A b \in Arguments : new[b] = cache[f][b] \/ new[b] = Nothing \/ new[b] = Result(t)
  BY <1>7
<1>9. {b \in Arguments : new[b] # Nothing} = (Cached(f) \union {a}) \ dropped
  BY <1>1, ResultFacts DEF Cached
<1> HIDE DEF new
<1>10. /\ cache' \in [DOMAIN Functions -> [Arguments -> {Nothing} \union Results]]
       /\ KeepsCachesFresh
       /\ Cached(f)' = (Cached(f) \union {a}) \ dropped
       /\ \A g \in DOMAIN Functions \ {f} : Cached(g)' = Cached(g)
  <2>1. /\ cache' \in [DOMAIN Functions -> [Arguments -> {Nothing} \union Results]]
        /\ KeepsCachesFresh
        /\ Cached(f)' = {b \in Arguments : new[b] # Nothing}
        /\ \A g \in DOMAIN Functions \ {f} : Cached(g)' = Cached(g)
    BY <1>6, <1>r, <1>7, <1>8, Stored DEF CachesInv
  <2> QED
    BY <1>9, <2>1
<1>11. /\ OthersAreThere(t) /\ CallsAreNested' /\ SourcesAreFresh'
       /\ \A g : t \notin Evicting(g)'
  BY <1>1, <1>f, <1>2, <1>4, <1>10, TopFacts, AfterReturn
<1>12. CachesTypeOK'
  BY <1>2, <1>10, <1>11, StepTypes DEF CachesInv, CachesTypeOK
<1>13. raced' >= raced /\ raced \in Nat /\ raced' = raced
  BY <1>2 DEF CachesInv, CachesTypeOK
<1>14. Owed(f)'
  <2> DEFINE old == Cached(f)
             both == old \union {a}
  <2>1. IsFiniteSet(old) /\ Cardinality(old) \in Nat /\ Size(f) \in Nat
    BY <1>1, CachedFinite, SizeType
  <2>2. IsFiniteSet(both) /\ Cardinality(both) = IF a \in old THEN Cardinality(old) ELSE Cardinality(old) + 1
    <3> HIDE DEF old
    <3> QED
      BY <2>1, FS_AddElement
  <2>3. CASE Cardinality(both) > Size(f)
    <3>1. Cardinality(dropped) = 1
      BY <1>3, <2>3
    <3>2. IsFiniteSet(dropped)
      BY <2>1, FS_Subset
    <3>3. PICK d : dropped = {d}
      BY <3>1, <3>2, FS_Singleton
    <3>4. Cardinality(both \ {d}) = Cardinality(both) - 1
      <4>1. d \in both
        BY <3>3
      <4> HIDE DEF both
      <4> QED
        BY <2>2, <4>1, FS_RemoveElement
    <3>5. Cardinality(Cached(f)') <= Cardinality(old)
      BY <1>10, <2>1, <2>2, <3>3, <3>4
    <3>6. Cardinality(Cached(f)') \in Nat /\ Cardinality(Evicting(f)') \in Nat /\ Cardinality(Evicting(f)) \in Nat
      BY CachedFinite
    <3>7. Evicting(f)' = Evicting(f)
      <4>1. t \notin Evicting(f) /\ t \notin Evicting(f)'
        BY <1>1, <1>11, NotEvicting
      <4>2. Evicting(f)' \ {t} = Evicting(f) \ {t}
        BY <1>11, OthersStay DEF OthersAreThere
      <4> QED
        BY <4>1, <4>2
    <3>8. Owed(f)
      BY <1>1, OwedAll DEF CachesInv
    <3>9. Cardinality(Cached(f)') <= Size(f) + raced' + Cardinality(Evicting(f)')
      BY <1>13, <2>1, <3>5, <3>6, <3>7, <3>8 DEF Owed
    <3> QED
      BY <3>9 DEF Owed
  <2>4. CASE ~(Cardinality(both) > Size(f))
    <3>1. dropped = {}
      BY <1>3, <2>4
    <3>2. Cached(f)' = both
      BY <1>10, <3>1
    <3>3. Cardinality(Cached(f)') <= Size(f)
      BY <2>1, <2>2, <2>4, <3>2, FS_CardinalityType
    <3> QED
      BY <1>1, <1>12, <3>3, OwedWithin
  <2> QED
    BY <2>3, <2>4
<1>15. ASSUME NEW g \in DOMAIN Functions PROVE Owed(g)'
  <2>1. CASE g = f
    BY <1>14, <2>1
  <2>2. CASE g # f
    <3>1. Owed(g) /\ t \notin Evicting(g)
      BY <1>1, OwedAll, NotEvicting DEF CachesInv
    <3>2. Cached(g)' \subseteq Cached(g)
      BY <1>10, <2>2
    <3> QED
      BY <1>11, <1>12, <1>13, <3>1, <3>2, OwedStays DEF CachesInv, OthersAreThere
  <2> QED
    BY <2>1, <2>2
<1> QED
  BY <1>11, <1>12, <1>15 DEF CachesInv, EvictionsAreOwed, Owed

LEMMA CountKeeps ==
  ASSUME CachesInv, NEW t \in Threads, Count(t)
  PROVE  CachesInv'
<1>f. PICK f : f = Top(t).f
  OBVIOUS
<1>1. /\ Busy(t) /\ Top(t).at = "count" /\ f \in DOMAIN Functions /\ Top(t) \in Frames /\ Expires(f)
      /\ Top(t).ok \in BOOLEAN /\ Top(t).born \in SUBSET Sources /\ Top(t).now \in Nat
      /\ Fresh(f, Top(t).now, Top(t).born)
  BY <1>f, TopFacts DEF Count, At
<1>2. /\ clock' = clock /\ scenario' = scenario /\ cache' = cache /\ raced' = raced
      /\ started' = started /\ outages' = outages /\ restarts' = restarts
  BY DEF Count
<1>3. raced' >= raced
  BY <1>2 DEF CachesInv, CachesTypeOK
<1>4. ASSUME OthersAreThere(t) PROVE CachesTypeOK'
  BY <1>2, <1>4, StepTypes DEF CachesInv, CachesTypeOK
<1>5. CASE Cardinality(Cached(f)) > Size(f)
  <2> DEFINE frame == [Top(t) EXCEPT !.at = "oldest", !.keys = Cached(f)]
  <2>1. SetTop(t, frame)
    BY <1>f, <1>5 DEF Count
  <2>2. /\ frame \in Frames /\ frame.f = f /\ frame.now = Top(t).now /\ frame.born = Top(t).born
        /\ frame.at = "oldest"
    <3>1. Cached(f) \in SUBSET Arguments
      BY DEF Cached
    <3> QED
      BY <1>1, <1>f, <3>1 DEF Frames
  <2> HIDE DEF frame
  <2>3. /\ OthersAreThere(t) /\ CallsAreNested' /\ SourcesAreFresh'
        /\ \A g : t \in Evicting(g)' <=> g = f
    BY <1>1, <1>f, <1>2, <2>1, <2>2, SameCache, AfterSet
  <2>4. \A g : t \in Evicting(g) => g = f
    BY <1>f DEF Evicting
  <2>5. CachesTypeOK'
    BY <1>4, <2>3
  <2>6. ASSUME NEW g \in DOMAIN Functions PROVE Owed(g)'
    <3>1. Owed(g) /\ Cached(g)' \subseteq Cached(g) /\ (t \in Evicting(g) => t \in Evicting(g)')
      BY <1>2, <2>3, <2>4, OwedAll, SameCache DEF CachesInv
    <3> QED
      BY <1>3, <2>3, <2>5, <3>1, OwedStays DEF CachesInv, OthersAreThere
  <2> QED
    BY <2>3, <2>5, <2>6 DEF CachesInv, EvictionsAreOwed, Owed
<1>6. CASE ~(Cardinality(Cached(f)) > Size(f))
  <2>1. Returns(t, Top(t).ok, Top(t).born)
    BY <1>f, <1>6 DEF Count
  <2>2. Top(t).now - Ttl(f) <= Top(t).now
    BY <1>1, TtlType
  <2>3. /\ OthersAreThere(t) /\ CallsAreNested' /\ SourcesAreFresh'
        /\ \A g : t \notin Evicting(g)'
    BY <1>1, <1>f, <1>2, <2>1, <2>2, SameCache, AfterReturn
  <2>4. CachesTypeOK'
    BY <1>4, <2>3
  <2>5. ASSUME NEW g \in DOMAIN Functions PROVE Owed(g)'
    <3>1. Cached(g)' = Cached(g) /\ Owed(g)
      BY <1>2, OwedAll, SameCache DEF CachesInv
    <3>2. CASE g = f
      <4>1. Cardinality(Cached(g)') <= Size(g)
        BY <1>1, <1>6, <3>1, <3>2, CachedFinite, SizeType
      <4> QED
        BY <2>4, <4>1, OwedWithin
    <3>3. CASE g # f
      <4>1. t \notin Evicting(g)
        BY <1>f, <3>3 DEF Evicting
      <4> QED
        BY <1>3, <2>3, <2>4, <3>1, <4>1, OwedStays DEF CachesInv, OthersAreThere
    <3> QED
      BY <3>2, <3>3
  <2> QED
    BY <2>3, <2>4, <2>5 DEF CachesInv, EvictionsAreOwed, Owed
<1> QED
  BY <1>5, <1>6

\* A thread whose eviction raises.
LEMMA RaceKeeps ==
  ASSUME CachesInv, NEW t \in Threads, Busy(t), Top(t).at \in {"oldest", "evict"}, Raises(t),
         clock' = clock, scenario' = scenario, cache' = cache,
         started' = started, outages' = outages, restarts' = restarts
  PROVE  CachesInv'
<1>f. PICK f : f = Top(t).f
  OBVIOUS
<1>1. /\ OthersAreThere(t) /\ CallsAreNested' /\ SourcesAreFresh'
      /\ \A g : t \notin Evicting(g)'
      /\ raced' = raced + 1 /\ raced' \in 0..MaxRaces
  BY AfterRaise
<1>2. CachesTypeOK'
  BY <1>1, StepTypes DEF CachesInv, CachesTypeOK
<1>3. raced' >= raced
  BY <1>1 DEF CachesInv, CachesTypeOK
<1>4. ASSUME NEW g \in DOMAIN Functions PROVE Owed(g)'
  <2>1. Owed(g) /\ Cached(g)' = Cached(g)
    BY OwedAll, SameCache DEF CachesInv
  <2>2. CASE g = f
    <3>1. t \in Evicting(g)
      BY <1>f, <2>2 DEF Evicting
    <3> QED
      BY <1>1, <1>2, <2>1, <3>1, OwedAfterEviction DEF CachesInv, OthersAreThere
  <2>3. CASE g # f
    <3>1. t \notin Evicting(g)
      BY <1>f, <2>3 DEF Evicting
    <3> QED
      BY <1>1, <1>2, <1>3, <2>1, <3>1, OwedStays DEF CachesInv, OthersAreThere
  <2> QED
    BY <2>2, <2>3
<1> QED
  BY <1>1, <1>2, <1>4 DEF CachesInv, EvictionsAreOwed, Owed

LEMMA OldestKeeps ==
  ASSUME CachesInv, NEW t \in Threads, Oldest(t)
  PROVE  CachesInv'
<1>f. PICK f : f = Top(t).f
  OBVIOUS
<1>1. /\ Busy(t) /\ Top(t).at = "oldest" /\ f \in DOMAIN Functions /\ Top(t) \in Frames /\ Expires(f)
      /\ Fresh(f, Top(t).now, Top(t).born)
  BY <1>f, TopFacts DEF Oldest, At
<1>2. /\ clock' = clock /\ scenario' = scenario /\ cache' = cache
      /\ started' = started /\ outages' = outages /\ restarts' = restarts
  BY DEF Oldest
<1>3. CASE Raises(t)
  BY <1>1, <1>2, <1>3, RaceKeeps
<1>4. ASSUME NEW a \in Cached(f), SetTop(t, [Top(t) EXCEPT !.at = "evict", !.oldest = a, !.keys = {}]), UNCHANGED raced
      PROVE  CachesInv'
  <2> DEFINE frame == [Top(t) EXCEPT !.at = "evict", !.oldest = a, !.keys = {}]
  <2>1. SetTop(t, frame)
    BY <1>4
  <2>2. /\ frame \in Frames /\ frame.f = f /\ frame.now = Top(t).now /\ frame.born = Top(t).born
        /\ frame.at = "evict"
    <3>1. a \in Arguments
      BY DEF Cached
    <3> QED
      BY <1>1, <1>f, <3>1 DEF Frames
  <2> HIDE DEF frame
  <2>3. /\ OthersAreThere(t) /\ CallsAreNested' /\ SourcesAreFresh'
        /\ \A g : t \in Evicting(g)' <=> g = f
    BY <1>1, <1>f, <1>2, <2>1, <2>2, SameCache, AfterSet
  <2>4. \A g : t \in Evicting(g) => g = f
    BY <1>f DEF Evicting
  <2>5. CachesTypeOK' /\ raced' >= raced
    BY <1>2, <1>4, <2>3, StepTypes DEF CachesInv, CachesTypeOK
  <2>6. ASSUME NEW g \in DOMAIN Functions PROVE Owed(g)'
    <3>1. Owed(g) /\ Cached(g)' \subseteq Cached(g) /\ (t \in Evicting(g) => t \in Evicting(g)')
      BY <1>2, <2>3, <2>4, OwedAll, SameCache DEF CachesInv
    <3> QED
      BY <2>3, <2>5, <3>1, OwedStays DEF CachesInv, OthersAreThere
  <2> QED
    BY <2>3, <2>5, <2>6 DEF CachesInv, EvictionsAreOwed, Owed
<1> QED
  BY <1>f, <1>3, <1>4 DEF Oldest

LEMMA EvictKeeps ==
  ASSUME CachesInv, NEW t \in Threads, Evict(t)
  PROVE  CachesInv'
<1>f. PICK f : f = Top(t).f
  OBVIOUS
<1>a. PICK a : a = Top(t).oldest
  OBVIOUS
<1>1. /\ Busy(t) /\ Top(t).at = "evict" /\ f \in DOMAIN Functions /\ Top(t) \in Frames /\ Expires(f)
      /\ Top(t).ok \in BOOLEAN /\ Top(t).born \in SUBSET Sources /\ Top(t).now \in Nat
      /\ Fresh(f, Top(t).now, Top(t).born) /\ a \in Arguments
  BY <1>f, <1>a, TopFacts, FrameFacts DEF Evict, At
<1>2. /\ clock' = clock /\ scenario' = scenario
      /\ started' = started /\ outages' = outages /\ restarts' = restarts
  BY DEF Evict
<1>3. CASE Raises(t) /\ UNCHANGED cache
  BY <1>1, <1>2, <1>3, RaceKeeps
<1>4. CASE /\ cache[f][a] # Nothing
           /\ cache' = [cache EXCEPT ![f][a] = Nothing]
           /\ Returns(t, Top(t).ok, Top(t).born) /\ UNCHANGED raced
  <2>1. /\ cache' \in [DOMAIN Functions -> [Arguments -> {Nothing} \union Results]]
        /\ KeepsCachesFresh
        /\ Cached(f)' = Cached(f) \ {a}
        /\ \A g \in DOMAIN Functions \ {f} : Cached(g)' = Cached(g)
    BY <1>1, <1>4, Uncached DEF CachesInv
  <2>2. Top(t).now - Ttl(f) <= Top(t).now
    BY <1>1, TtlType
  <2>3. /\ OthersAreThere(t) /\ CallsAreNested' /\ SourcesAreFresh'
        /\ \A g : t \notin Evicting(g)'
    BY <1>1, <1>f, <1>2, <1>4, <2>1, <2>2, AfterReturn
  <2>4. CachesTypeOK' /\ raced' >= raced
    BY <1>2, <1>4, <2>1, <2>3, StepTypes DEF CachesInv, CachesTypeOK
  <2>5. ASSUME NEW g \in DOMAIN Functions PROVE Owed(g)'
    <3>1. Owed(g)
      BY OwedAll DEF CachesInv
    <3>2. CASE g = f
      <4>1. t \in Evicting(g) /\ a \in Cached(g) /\ Cached(g)' = Cached(g) \ {a}
        BY <1>f, <1>1, <1>4, <2>1, <3>2 DEF Evicting, Cached
      <4> QED
        BY <1>4, <2>3, <2>4, <3>1, <4>1, OwedAfterEviction DEF CachesInv, OthersAreThere
    <3>3. CASE g # f
      <4>1. t \notin Evicting(g) /\ Cached(g)' \subseteq Cached(g)
        BY <1>f, <2>1, <3>3 DEF Evicting
      <4> QED
        BY <2>3, <2>4, <3>1, <4>1, OwedStays DEF CachesInv, OthersAreThere
    <3> QED
      BY <3>2, <3>3
  <2> QED
    BY <2>3, <2>4, <2>5 DEF CachesInv, EvictionsAreOwed, Owed
<1> QED
  BY <1>f, <1>a, <1>3, <1>4 DEF Evict

LEMMA SameCaches ==
  ASSUME CachesInv, UNCHANGED <<stack, cache, raced, started, outages, restarts, scenario>>,
         clock' \in Nat, clock' >= clock
  PROVE  CachesInv'
<1>1. CachesTypeOK'
  BY DEF CachesInv, CachesTypeOK
<1>2. CallsAreNested'
  <2>1. \A t \in Threads : \A i \in 1 .. Len(stack[t]) : stack[t][i].now \in Nat
    BY StackFacts, FrameFacts DEF CachesInv
  <2> QED
    BY <2>1 DEF CachesInv, CachesTypeOK, CallsAreNested
<1>3. EvictionsAreOwed'
  BY DEF CachesInv, EvictionsAreOwed, Evicting, Cached, Busy, Top
<1>4. SourcesAreFresh'
  <2>1. \A f, base, born : Fresh(f, base, born) => Fresh(f, base, born)'
    BY DEF Fresh
  <2>2. \A f \in DOMAIN Functions : \A a \in Arguments : cache[f][a] # Nothing => cache[f][a].time \in Nat
    BY DEF CachesInv, CachesTypeOK, Results
  <2>3. /\ \A t \in Threads : \A i \in 1 .. Len(stack'[t]) : Fresh(stack'[t][i].f, stack'[t][i].now, stack'[t][i].born)
        /\ \A f \in DOMAIN Functions : \A a \in Arguments :
             cache'[f][a] # Nothing => cache'[f][a].time <= clock' /\ Fresh(f, cache'[f][a].time, cache'[f][a].born)
    BY <2>2 DEF CachesInv, CachesTypeOK, SourcesAreFresh
  <2> QED
    BY <2>1, <2>3 DEF SourcesAreFresh, Fresh
<1> QED
  BY <1>1, <1>2, <1>3, <1>4 DEF CachesInv

\* Nothing cached, no thread in a call.
LEMMA EmptyCaches ==
  ASSUME CachesTypeOK, stack = [t \in Threads |-> <<>>],
         cache = [f \in DOMAIN Functions |-> [a \in Arguments |-> Nothing]]
  PROVE  CachesInv
<1>1. \A t \in Threads : stack[t] = <<>> /\ Len(stack[t]) = 0
  OBVIOUS
<1>2. \A f \in DOMAIN Functions : \A a \in Arguments : cache[f][a] = Nothing
  OBVIOUS
<1>3. CallsAreNested
  BY <1>1 DEF CallsAreNested
<1>4. SourcesAreFresh
  BY <1>1, <1>2 DEF SourcesAreFresh
<1>5. ASSUME NEW f \in DOMAIN Functions PROVE Owed(f)
  <2>1. Cached(f) = {}
    BY <1>2 DEF Cached
  <2>2. Cardinality(Cached(f)) = 0
    BY <2>1, FS_EmptySet
  <2> QED
    BY <2>2, CachedFinite, SizeType DEF Owed, CachesTypeOK
<1> QED
  BY <1>3, <1>4, <1>5, OwedAll DEF CachesInv

LEMMA EmptiedCaches ==
  ASSUME CachesTypeOK', stack' = [t \in Threads |-> <<>>],
         cache' = [f \in DOMAIN Functions |-> [a \in Arguments |-> Nothing]]
  PROVE  CachesInv'
<1>1. \A t \in Threads : stack'[t] = <<>> /\ Len(stack'[t]) = 0
  OBVIOUS
<1>2. \A f \in DOMAIN Functions : \A a \in Arguments : cache'[f][a] = Nothing
  OBVIOUS
<1>3. CallsAreNested'
  BY <1>1 DEF CallsAreNested
<1>4. SourcesAreFresh'
  BY <1>1, <1>2 DEF SourcesAreFresh
<1>5. ASSUME NEW f \in DOMAIN Functions PROVE Owed(f)'
  <2>1. Cached(f)' = {}
    BY <1>2 DEF Cached
  <2>2. Cardinality(Cached(f)') <= Size(f)
    BY <2>1, FS_EmptySet, SizeType
  <2> QED
    BY <2>2, OwedWithin
<1> QED
  BY <1>3, <1>4, <1>5 DEF CachesInv, EvictionsAreOwed, Owed

LEMMA RestartKeeps ==
  ASSUME CachesInv, Restart
  PROVE  CachesInv'
<1>1. /\ restarts < MaxRestarts /\ restarts' = restarts + 1
      /\ stack' = [t \in Threads |-> <<>>]
      /\ cache' = [f \in DOMAIN Functions |-> [a \in Arguments |-> Nothing]]
      /\ started' = clock /\ raced' = 0
      /\ clock' = clock /\ scenario' = scenario /\ outages' = outages
  BY DEF Restart
<1>2. stack' \in [Threads -> Seq(Frames)]
  <2>1. <<>> \in Seq(Frames)
    OBVIOUS
  <2> QED
    BY <1>1, <2>1
<1>3. CachesTypeOK'
  BY <1>1, <1>2, CacheNumbers DEF CachesInv, CachesTypeOK
<1> QED
  BY <1>1, <1>3, EmptiedCaches

\* The thread that takes a step keeps the invariant, whichever step it is.
LEMMA CachesStep ==
  ASSUME CachesInv, [CachesNext]_cacheVars
  PROVE  CachesInv'
<1>1. CASE UNCHANGED cacheVars
  BY <1>1, SameCaches DEF CachesInv, CachesTypeOK, cacheVars
<1>2. CASE CachesTick
  BY <1>2, SameCaches DEF CachesTick, CachesInv, CachesTypeOK
<1>3. CASE Restart
  BY <1>3, RestartKeeps
<1>4. ASSUME NEW t \in Threads,
             \/ Request(t) \/ Look(t) \/ Get(t) \/ Delete(t) \/ Body(t) \/ Store(t)
             \/ Count(t) \/ Oldest(t) \/ Evict(t)
      PROVE  CachesInv'
  BY <1>4, RequestKeeps, LookKeeps, GetKeeps, DeleteKeeps, BodyKeeps, StoreExpiringKeeps,
     StoreBesideKeeps, StoreLastingKeeps, CountKeeps, OldestKeeps, EvictKeeps
<1> QED
  BY <1>1, <1>2, <1>3, <1>4 DEF CachesNext

LEMMA CachesBegin == ASSUME CachesInit PROVE CachesInv
<1>1. stack \in [Threads -> Seq(Frames)]
  <2>1. <<>> \in Seq(Frames)
    OBVIOUS
  <2> QED
    BY <2>1 DEF CachesInit
<1>2. CachesTypeOK
  BY <1>1, CacheNumbers DEF CachesInit, CachesTypeOK
<1> QED
  BY <1>2, EmptyCaches DEF CachesInit

\* The types, the nesting of the calls, what is owed to the bound of a cache and the age
\* of what is in it hold in every state.
THEOREM CachesInvariant == CachesSpec => [](CachesTypeOK /\ CallsAreNested /\ EvictionsAreOwed /\ SourcesAreFresh)
<1>1. CachesInit => CachesInv
  BY CachesBegin
<1>2. CachesInv /\ [CachesNext]_cacheVars => CachesInv'
  BY CachesStep
<1>3. CachesInv => CachesTypeOK /\ CallsAreNested /\ EvictionsAreOwed /\ SourcesAreFresh
  BY DEF CachesInv
<1> QED
  BY <1>1, <1>2, <1>3, PTL DEF CachesSpec

\* A cache holds no more than its maxsize, what is being evicted and what exceptions left:
\* the property is the invariant, because only the last call of a thread evicts.
THEOREM CachesBounded == CachesSpec => []CachesAreBounded
<1>1. ASSUME CachesInv PROVE CachesAreBounded
  <2>1. ASSUME NEW f \in DOMAIN Functions
        PROVE  Evicting(f) = {t \in Threads : \E i \in DOMAIN stack[t] :
                                stack[t][i].f = f /\ stack[t][i].at \in {"count", "oldest", "evict"}}
    <3>1. ASSUME NEW t \in Threads, NEW i \in DOMAIN stack[t], stack[t][i].at \in {"count", "oldest", "evict"}
          PROVE  Busy(t) /\ stack[t][i] = Top(t)
      <4>1. stack[t] \in Seq(Frames) /\ Len(stack[t]) \in Nat
        BY <1>1, StackFacts DEF CachesInv
      <4>2. i \in 1 .. Len(stack[t])
        BY <4>1
      <4>3. i = Len(stack[t])
        BY <1>1, <3>1, <4>1, <4>2 DEF CachesInv, CallsAreNested
      <4>4. Len(stack[t]) > 0
        BY <4>1, <4>2
      <4>5. stack[t] # <<>>
        BY <4>1, <4>4
      <4> QED
        BY <4>3, <4>5 DEF Top, Busy
    <3>2. ASSUME NEW t \in Threads, Busy(t)
          PROVE  Len(stack[t]) \in DOMAIN stack[t]
      <4>1. stack[t] \in Seq(Frames) /\ Len(stack[t]) \in Nat /\ Len(stack[t]) > 0
        BY <1>1, <3>2, StackFacts DEF CachesInv
      <4> QED
        BY <4>1
    <3> QED
      BY <3>1, <3>2 DEF Evicting, Top
  <2> QED
    BY <1>1, <2>1 DEF CachesInv, EvictionsAreOwed, CachesAreBounded
<1>2. CachesInit => CachesInv
  BY CachesBegin
<1>3. CachesInv /\ [CachesNext]_cacheVars => CachesInv'
  BY CachesStep
<1> QED
  BY <1>1, <1>2, <1>3, PTL DEF CachesSpec

\* A thread's step leaves the calls of the others.
LEMMA OwnCalls ==
  ASSUME CachesTypeOK, NEW u \in Threads, NEW t \in Threads, t # u,
         \/ Request(u) \/ Look(u) \/ Get(u) \/ Delete(u) \/ Body(u) \/ Store(u)
         \/ Count(u) \/ Oldest(u) \/ Evict(u)
  PROVE  stack'[t] = stack[t]
<1>1. stack \in [Threads -> Seq(Frames)]
  BY DEF CachesTypeOK
<1>2. \A new : stack' = [stack EXCEPT ![u] = new] => stack'[t] = stack[t]
  BY <1>1
<1>3. ASSUME NEW frame, SetTop(u, frame) PROVE stack'[t] = stack[t]
  BY <1>2, <1>3 DEF SetTop
<1>4. ASSUME NEW place, GoTo(u, place) PROVE stack'[t] = stack[t]
  BY <1>3, <1>4 DEF GoTo
<1>5. ASSUME NEW ok, NEW born, Returns(u, ok, born) PROVE stack'[t] = stack[t]
  <2> DEFINE rest == SubSeq(stack[u], 1, Len(stack[u]) - 1)
             new == IF rest = <<>> THEN <<>> ELSE [rest EXCEPT ![Len(rest)] = GoesOn(rest[Len(rest)], ok, born)]
  <2>1. stack' = [stack EXCEPT ![u] = new]
    BY <1>5 DEF Returns
  <2> HIDE DEF new
  <2> QED
    BY <1>2, <2>1
<1>6. ASSUME Raises(u) PROVE stack'[t] = stack[t]
  <2>1. \E new : stack' = [stack EXCEPT ![u] = new]
    BY <1>6 DEF Raises
  <2> QED
    BY <1>2, <2>1
<1>7. ASSUME Request(u) \/ Body(u) PROVE stack'[t] = stack[t]
  BY <1>2, <1>3, <1>7 DEF Request, Body
<1>8. ASSUME Look(u) \/ Get(u) \/ Delete(u) PROVE stack'[t] = stack[t]
  BY <1>4, <1>5, <1>6, <1>8 DEF Look, Get, Delete
<1>9. ASSUME Store(u) \/ Count(u) PROVE stack'[t] = stack[t]
  BY <1>3, <1>4, <1>5, <1>9 DEF Store, Count
<1>10. ASSUME Oldest(u) \/ Evict(u) PROVE stack'[t] = stack[t]
  BY <1>3, <1>5, <1>6, <1>10 DEF Oldest, Evict
<1> QED
  BY <1>7, <1>8, <1>9, <1>10

LEMMA StaysBusy ==
  ASSUME CachesInv, NEW t \in Threads, Busy(t),
         NEW place \in {"look", "get", "delete", "body", "count", "oldest", "evict"}, GoTo(t, place)
  PROVE  stack'[t] # <<>>
<1> DEFINE frame == [Top(t) EXCEPT !.at = place]
<1>1. Top(t) \in Frames
  BY TopFacts
<1>2. frame \in Frames /\ frame.f = Top(t).f /\ frame.now = Top(t).now
  BY <1>1, PlacedFrame
<1>3. SetTop(t, frame)
  BY DEF GoTo
<1> HIDE DEF frame
<1>4. Busy(t)'
  BY <1>2, <1>3, SetTopCuts DEF CachesInv
<1> QED
  BY <1>4 DEF Busy

LEMMA AnswersAreLast ==
  ASSUME CachesInv, NEW t \in Threads, Answers(t)
  PROVE  /\ stack'[t] = <<>> /\ stack'[t] # stack[t] /\ Busy(t)
         /\ raced' = raced /\ restarts' = restarts /\ raced \in Nat /\ restarts \in Nat
<1>1. /\ stack[t] \in Seq(Frames) /\ Len(stack[t]) = 1 /\ stack'[t] = <<>>
      /\ raced' = raced /\ restarts' = restarts /\ raced \in Nat /\ restarts \in Nat
  BY StackFacts DEF Answers, CachesInv, CachesTypeOK
<1>2. stack[t] # <<>>
  BY <1>1, NoLength
<1> QED
  BY <1>1, <1>2 DEF Busy

\* An answer that is taken from a cache: of lru_cache in one step, of ttl_cache if it is
\* young enough.
LEMMA AnswerFromCache ==
  ASSUME CachesInv, [CachesNext]_cacheVars, NEW t \in Threads, Answers(t), Top(t).at \in {"look", "get"}
  PROVE  /\ Entry(t) # Nothing
         /\ Expires(Top(t).f) => Top(t).now - Entry(t).time < Ttl(Top(t).f)
<1>1. /\ stack'[t] = <<>> /\ stack'[t] # stack[t] /\ Busy(t)
      /\ raced' = raced /\ restarts' = restarts /\ raced \in Nat /\ restarts \in Nat
  BY AnswersAreLast
<1>2. Busy(t) /\ stack'[t] # stack[t]
  BY <1>1
<1>3. ~Restart /\ ~CachesTick /\ ~UNCHANGED cacheVars
  BY <1>1, <1>2 DEF Restart, CachesTick, cacheVars
<1>4. PICK u \in Threads :
         \/ Request(u) \/ Look(u) \/ Get(u) \/ Delete(u) \/ Body(u) \/ Store(u)
         \/ Count(u) \/ Oldest(u) \/ Evict(u)
  BY <1>3 DEF CachesNext
<1>5. u = t
  BY <1>2, <1>4, OwnCalls DEF CachesInv
<1>6. Look(t) \/ Get(t)
  BY <1>2, <1>4, <1>5 DEF Request, Delete, Body, Store, Count, Oldest, Evict, At
<1>7. ~GoTo(t, "body") /\ ~GoTo(t, "get") /\ ~GoTo(t, "delete")
  BY <1>1, <1>2, StaysBusy
<1>8. ~Raises(t)
  <2> SUFFICES ASSUME Raises(t) PROVE FALSE
    OBVIOUS
  <2>1. raced' = raced + 1
    BY <1>1, RaisesCuts DEF CachesInv
  <2> QED
    BY <1>1, <2>1
<1> QED
  BY <1>6, <1>7, <1>8 DEF Look, Get

LEMMA AnswerSources ==
  ASSUME CachesInv, [CachesNext]_cacheVars, NEW t \in Threads, Answers(t),
         NEW source \in (IF Top(t).at \in {"look", "get"} THEN Entry(t).born ELSE Top(t).born)
  PROVE  IF Expires(source[1])
         THEN source[2] > Top(t).now - Wait[source[1]]
         ELSE source[2] >= started
<1>1. /\ stack'[t] = <<>> /\ stack'[t] # stack[t] /\ Busy(t)
      /\ raced' = raced /\ restarts' = restarts /\ raced \in Nat /\ restarts \in Nat
  BY AnswersAreLast
<1>2. Busy(t) /\ stack'[t] # stack[t]
  BY <1>1
<1> DEFINE f == Top(t).f
<1>3. /\ f \in DOMAIN Functions /\ Top(t).now \in Nat /\ Top(t).born \in SUBSET Sources
      /\ Fresh(f, Top(t).now, Top(t).born)
  BY <1>2, TopFacts
<1>4. Wait[f] \in Nat /\ Ttl(f) \in Nat /\ Wait[f] >= Ttl(f) /\ (Expires(f) => Ttl(f) > 0)
  BY <1>3, WaitFacts, TtlType
\* Sources of what was begun at a time that is not too long ago.
<1>5. ASSUME NEW born \in SUBSET Sources, NEW time \in Nat, Fresh(f, time, born), source \in born,
             Expires(f) => time > Top(t).now - Wait[f]
      PROVE  IF Expires(source[1]) THEN source[2] > Top(t).now - Wait[source[1]] ELSE source[2] >= started
  <2>1. source[1] \in DOMAIN Functions /\ source[2] \in Nat /\ Wait[source[1]] \in Nat
    BY <1>5, WaitFacts DEF Sources
  <2>2. started \in Nat /\ started <= source[2]
    BY <1>5 DEF Fresh, CachesInv, CachesTypeOK
  <2>3. Expires(source[1]) => Expires(f) /\ time - (Wait[source[1]] - Wait[f]) <= source[2]
    BY <1>5 DEF Fresh
  <2> QED
    BY <1>3, <1>4, <1>5, <2>1, <2>2, <2>3
<1>6. CASE Top(t).at \notin {"look", "get"}
  <2>1. source \in Top(t).born
    BY <1>6
  <2>2. Expires(f) => Top(t).now > Top(t).now - Wait[f]
    BY <1>3, <1>4
  <2> QED
    BY <1>3, <1>5, <2>1, <2>2
<1>7. CASE Top(t).at \in {"look", "get"}
  <2>1. /\ Entry(t) # Nothing
        /\ Expires(f) => Top(t).now - Entry(t).time < Ttl(f)
    BY <1>7, AnswerFromCache
  <2>2. /\ Entry(t).born \in SUBSET Sources /\ Entry(t).time \in Nat
        /\ Fresh(f, Entry(t).time, Entry(t).born)
    BY <1>2, <2>1, EntryFacts
  <2>3. Expires(f) => Entry(t).time > Top(t).now - Wait[f]
    BY <1>3, <1>4, <2>1, <2>2
  <2>4. source \in Entry(t).born
    BY <1>7
  <2> QED
    BY <1>5, <2>2, <2>3, <2>4
<1> QED
  BY <1>6, <1>7

\* What an answer is made of was read less than the sum of the times to live before its
\* request came, or since the worker was started.
THEOREM AnswersFresh == CachesSpec => AnswersAreNotOlderThanTheCachesAllow
<1>1. CachesInit => CachesInv
  BY CachesBegin
<1>2. CachesInv /\ [CachesNext]_cacheVars => CachesInv'
  BY CachesStep
<1>3. CachesInv /\ [CachesNext]_cacheVars =>
        [\A t \in Threads : Answers(t) =>
           \A source \in (IF Top(t).at \in {"look", "get"} THEN Entry(t).born ELSE Top(t).born) :
              IF Expires(source[1])
              THEN source[2] > Top(t).now - Wait[source[1]]
              ELSE source[2] >= started]_cacheVars
  BY AnswerSources
<1> QED
  BY <1>1, <1>2, <1>3, PTL DEF CachesSpec, AnswersAreNotOlderThanTheCachesAllow
=================================================================================
