-------------------------------- MODULE Bills --------------------------------
(***************************************************************************)
(* The categories of one user's bank transactions (src/bills/billDB.go and *)
(* its handlers in src/main.go).  An imported transaction gets the         *)
(* category of its merchant's rule; one that gets none is left to a        *)
(* goroutine that asks a model, whose answer becomes a rule.  A user who   *)
(* corrects a transaction makes a rule as well, and the other transactions *)
(* of the merchant follow.  Every statement stands alone: there is neither *)
(* a transaction nor a lock around those of a request.                     *)
(*                                                                         *)
(* A merchant stands for the key made of a description.  The transactions  *)
(* are payments; of savings only the account they go to is kept, because   *)
(* a payment to one of these is a transfer; incomes are left out.          *)
(***************************************************************************)
EXTENDS Integers, Sequences, FiniteSetsExt

CONSTANTS
    Merchants,
    Categories,  \* but Other
    Other, Transfer,
    Seed,        \* what the seed rules and keywords give each merchant, or Other
    Statement,   \* the entries of the bank's statement: [kind, merchant, account]
    NoAccount,   \* of an entry that names no account of the other side
    Imports,     \* uploads of the statement
    Updates,     \* updates of transactions
    MaxCalls,    \* bound: requests of the user
    MaxErrors    \* bound: failing statements

Entries == DOMAIN Statement

\* The accounts that the rounded up sums of the statement are saved to.
SavingsAccounts == {Statement[e].account : e \in {d \in Entries : Statement[d].kind = "roundup"}} \ {NoAccount}

ASSUME BillsAssumption ==
    /\ Other \notin Categories /\ Transfer \in Categories
    /\ Seed \in [Merchants -> Categories \union {Other}]
    /\ Len(Statement) \in Nat \ {0} /\ Entries = 1 .. Len(Statement)
    /\ \A e \in Entries : Statement[e].merchant \in Merchants /\ Statement[e].kind \in {"payment", "roundup"}
    /\ Imports \intersect Updates = {}
    /\ MaxCalls \in Nat /\ MaxErrors \in Nat

VARIABLES
    payments,   \* bank_transactions by entry: NoRow or [merchant, category]
    rules,      \* merchant_categories of the user: NoRow or [category, source]
    savings,    \* user_savings_ibans
    uploads,    \* what each import is doing
    questions,  \* transactions that wait for the model
    updates,    \* what each update is doing
    calls, errors,
    disturbed   \* merchants whose payments may disagree with their rule

billVars == <<payments, rules, savings, uploads, questions, updates, calls, errors, disturbed>>

NoRow == [is |-> "none"]
Rows == {e \in Entries : payments[e] # NoRow}
Rule(category, source) == [category |-> category, source |-> source]
UserRule(m) == rules[m] # NoRow /\ rules[m].source = "user"

Resting == [at |-> "idle"]
UserCall == calls < MaxCalls /\ calls' = calls + 1
Error == errors < MaxErrors /\ errors' = errors + 1
NoError == UNCHANGED errors

\* The updates about a merchant, and the imports between its lookup and its row.
UpdatesOf(m) == {u \in Updates : updates[u] # Resting /\ updates[u].merchant = m}
InsertsOf(m) == {i \in Imports : uploads[i].at = "insert" /\ Statement[uploads[i].entry].merchant = m}
Concerned(m) == UpdatesOf(m) \union InsertsOf(m)

\* The updates when something else happens to merchant m.
Soil(m) == [u \in Updates |-> IF u \in UpdatesOf(m) THEN [updates[u] EXCEPT !.clean = FALSE] ELSE updates[u]]
Overlap(m) == IF Concerned(m) = {} THEN disturbed ELSE disturbed \union {m}

\* GetCachedCategory, then the seed keywords: a query that fails finds no rule.
CategorizeBankTransaction(m, failed) == IF ~failed /\ rules[m] # NoRow THEN rules[m].category ELSE Seed[m]

\* importBankXML begins with GetKnownSavingsIBANs; an error leaves what was read before it.
Upload(i) ==
    /\ UserCall /\ uploads[i] = Resting
    /\ \E known \in SUBSET savings :
           /\ IF known = savings THEN NoError ELSE Error
           /\ uploads' = [uploads EXCEPT ![i] =
                  [at |-> "lookup", entry |-> 1, category |-> Other, pending |-> {}, known |-> known]]
    /\ UNCHANGED <<payments, rules, savings, questions, updates, disturbed>>

\* The next entry of the statement; after the last one the goroutine that asks the model
\* is started.
NextEntry(i, upload) ==
    IF upload.entry < Len(Statement)
    THEN /\ uploads' = [uploads EXCEPT ![i] =
                [upload EXCEPT !.at = "lookup", !.entry = @ + 1, !.category = Other]]
         /\ UNCHANGED questions
    ELSE /\ uploads' = [uploads EXCEPT ![i] = Resting]
         /\ questions' = [questions EXCEPT ![i] = @ \union upload.pending]

\* An entry that saves: payments to its account are transfers from now on.  The error of
\* SaveSavingsIBAN is ignored.
Roundup(i) ==
    LET upload == uploads[i]
        ibans == {Statement[upload.entry].account} \ {NoAccount}
    IN
    /\ upload.at = "lookup" /\ Statement[upload.entry].kind = "roundup"
    /\ \/ NoError /\ savings' = savings \union ibans
       \/ Error /\ UNCHANGED savings
    /\ NextEntry(i, [upload EXCEPT !.known = @ \union ibans])
    /\ UNCHANGED <<payments, rules, updates, calls, disturbed>>

\* The category of a payment: what is found for its merchant, unless it goes to a known
\* savings account.  Without a category it is left to the model.
Lookup(i) ==
    LET upload == uploads[i]
        m == Statement[upload.entry].merchant
    IN
    /\ upload.at = "lookup" /\ Statement[upload.entry].kind = "payment"
    /\ \E failed \in BOOLEAN :
           LET category == IF Statement[upload.entry].account \in upload.known THEN Transfer
                           ELSE CategorizeBankTransaction(m, failed)
               question == [entry |-> upload.entry, ruled |-> UserRule(m), failed |-> failed]
           IN
           /\ IF failed THEN Error ELSE NoError
           /\ uploads' = [uploads EXCEPT ![i].at = "insert", ![i].category = category,
                  ![i].pending = @ \union IF category = Other THEN {question} ELSE {}]
           /\ disturbed' = Overlap(m) \union IF failed THEN {m} ELSE {}
    /\ updates' = Soil(m)
    /\ UNCHANGED <<payments, rules, savings, questions, calls>>

\* Fault for ImportBankTransaction: INSERT OR REPLACE.
ImportBankTransaction_Replaces(e, row) == [payments EXCEPT ![e] = row]

\* INSERT OR IGNORE by the reference of the entry.
ImportBankTransaction(e, row) == IF e \in Rows THEN payments ELSE [payments EXCEPT ![e] = row]

\* The row of the payment, whose error is logged only.
Insert(i) ==
    LET upload == uploads[i]
        e == upload.entry
    IN
    /\ upload.at = "insert"
    /\ \/ /\ NoError
          /\ payments' = ImportBankTransaction(e, [merchant |-> Statement[e].merchant, category |-> upload.category])
       \/ Error /\ UNCHANGED payments
    /\ NextEntry(i, upload)
    /\ UNCHANGED <<rules, savings, updates, calls, disturbed>>

\* categorizeWithAI: a valid answer becomes the rule of the merchant, whatever is there;
\* the payment that was asked for keeps its category.
Answer(i) ==
    /\ questions[i] # {}
    /\ LET first == Min({q.entry : q \in questions[i]})
           asked == {q \in questions[i] : q.entry = first}
       IN
       /\ questions' = [questions EXCEPT ![i] = @ \ asked]
       /\ \/ /\ NoError
             /\ \E category \in Categories \union {Other} :
                    rules' = [rules EXCEPT ![Statement[first].merchant] = Rule(category, "llm")]
          \/ Error /\ UNCHANGED rules
    /\ UNCHANGED <<payments, savings, uploads, updates, calls, disturbed>>

\* UpdateBankTransaction, its first statement.  The new description may be another
\* merchant's.  With the category Other nothing else is done.
UpdateBankTransaction(u) ==
    /\ UserCall /\ updates[u] = Resting
    /\ \E e \in Rows, m \in Merchants, category \in Categories \union {Other} :
           /\ payments' = [payments EXCEPT ![e] = [merchant |-> m, category |-> category]]
           /\ IF category = Other
              THEN updates' = Soil(m) /\ disturbed' = disturbed \union {m}
              ELSE /\ updates' = [Soil(m) EXCEPT ![u] =
                          [at |-> "rule", entry |-> e, merchant |-> m, category |-> category,
                           ids |-> {}, clean |-> Concerned(m) = {}]]
                   /\ disturbed' = Overlap(m)
    /\ UNCHANGED <<rules, savings, uploads, questions, errors>>

\* SaveUserMerchantCategory; its error is ignored.
SaveUserMerchantCategory(u) ==
    LET update == updates[u] IN
    /\ update.at = "rule"
    /\ \/ /\ NoError
          /\ rules' = [rules EXCEPT ![update.merchant] = Rule(update.category, "user")]
          /\ updates' = [updates EXCEPT ![u].at = "select"]
          /\ UNCHANGED disturbed
       \/ /\ Error /\ UNCHANGED rules
          /\ updates' = [updates EXCEPT ![u].at = "select", ![u].clean = FALSE]
          /\ disturbed' = disturbed \union {update.merchant}
    /\ UNCHANGED <<payments, savings, uploads, questions, calls>>

\* Fault for Matching: those without a category only.
Matching_Uncategorized(update) ==
    {e \in Rows \ {update.entry} : payments[e] = [merchant |-> update.merchant, category |-> Other]}

Matching(update) == {e \in Rows \ {update.entry} : payments[e].merchant = update.merchant}

Fails(u) ==
    /\ Error
    /\ updates' = [updates EXCEPT ![u] = Resting]
    /\ disturbed' = disturbed \union {updates[u].merchant}
    /\ UNCHANGED <<payments, rules>>

\* recategorizeMatching, its first statement: the other payments of the merchant, without
\* the rows that could not be scanned and those that an error cuts off.
Select(u) ==
    LET update == updates[u] IN
    /\ update.at = "select"
    /\ \/ \E found \in SUBSET Matching(update) :
              /\ updates' = [updates EXCEPT ![u].at = "apply", ![u].ids = found,
                                            ![u].clean = @ /\ found = Matching(update)]
              /\ IF found = Matching(update)
                 THEN NoError /\ UNCHANGED disturbed
                 ELSE Error /\ disturbed' = disturbed \union {update.merchant}
              /\ UNCHANGED <<payments, rules>>
       \/ Fails(u)
    /\ UNCHANGED <<savings, uploads, questions, calls>>

\* ... its second: those it found get the category, whatever has become of them.
Recategorize(u) ==
    LET update == updates[u]
        found == update.ids \intersect Rows
        moved == {payments[e].merchant : e \in found} \ {update.merchant}
    IN
    /\ update.at = "apply"
    /\ \/ /\ NoError
          /\ payments' = [e \in Entries |->
                 IF e \in found THEN [payments[e] EXCEPT !.category = update.category] ELSE payments[e]]
          /\ updates' = [v \in Updates |->
                 IF v = u THEN Resting
                 ELSE IF updates[v] # Resting /\ updates[v].merchant \in moved THEN [updates[v] EXCEPT !.clean = FALSE]
                 ELSE updates[v]]
          /\ disturbed' = (IF update.clean THEN disturbed \ {update.merchant} ELSE disturbed) \union moved
          /\ UNCHANGED rules
       \/ update.ids # {} /\ Fails(u)
    /\ UNCHANGED <<savings, uploads, questions, calls>>

\* UpdateExpense makes a rule too; the payments do not follow, only the expenses.
UpdateExpense(m) ==
    /\ UserCall
    /\ \E category \in Categories : rules' = [rules EXCEPT ![m] = Rule(category, "user")]
    /\ updates' = Soil(m) /\ disturbed' = disturbed \union {m}
    /\ UNCHANGED <<payments, savings, uploads, questions, errors>>

DeleteMerchantRule(m) ==
    /\ UserCall /\ rules[m] # NoRow
    /\ rules' = [rules EXCEPT ![m] = NoRow]
    /\ UNCHANGED <<payments, savings, uploads, questions, updates, errors, disturbed>>

DeleteBankTransaction(e) ==
    /\ UserCall /\ e \in Rows
    /\ payments' = [payments EXCEPT ![e] = NoRow]
    /\ UNCHANGED <<rules, savings, uploads, questions, updates, errors, disturbed>>

\* The server is started again: requests and goroutines end where they are.
RestartBills ==
    /\ Error
    /\ uploads' = [i \in Imports |-> Resting] /\ questions' = [i \in Imports |-> {}]
    /\ updates' = [u \in Updates |-> Resting]
    /\ disturbed' = disturbed \union {m \in Merchants : UpdatesOf(m) # {}}
    /\ UNCHANGED <<payments, rules, savings, calls>>

BillsInit ==
    /\ payments = [e \in Entries |-> NoRow]
    /\ rules = [m \in Merchants |-> NoRow] /\ savings = {}
    /\ uploads = [i \in Imports |-> Resting] /\ questions = [i \in Imports |-> {}]
    /\ updates = [u \in Updates |-> Resting]
    /\ calls = 0 /\ errors = 0 /\ disturbed = {}

BillsNext ==
    \/ \E i \in Imports : Upload(i) \/ Roundup(i) \/ Lookup(i) \/ Insert(i) \/ Answer(i)
    \/ \E u \in Updates :
           UpdateBankTransaction(u) \/ SaveUserMerchantCategory(u) \/ Select(u) \/ Recategorize(u)
    \/ \E m \in Merchants : UpdateExpense(m) \/ DeleteMerchantRule(m)
    \/ \E e \in Entries : DeleteBankTransaction(e)
    \/ RestartBills

BillsSpec == BillsInit /\ [][BillsNext]_billVars

(***************************************************************************)
(* Properties.                                                             *)
(***************************************************************************)

\* The import has taken the payment for a transfer to a savings account.
Transferred(e) == payments[e].category = Transfer /\ Statement[e].account \in SavingsAccounts

\* When nothing is going on with a merchant that has a rule of the user's, all its
\* payments have the category of the rule, the imported and the corrected ones, but for
\* those to a savings account, which an import may have made transfers; unless since the
\* last correction that ran alone two requests about it overlapped or one failed or read
\* an error for a rule or a row, one payment was set to Other or renamed between two
\* statements, or the rule came from an expense.
PaymentsFollowTheUsersRule ==
    \A m \in Merchants : UserRule(m) /\ m \notin disturbed /\ Concerned(m) = {} =>
        \A e \in Rows : payments[e].merchant = m =>
            payments[e].category = rules[m].category \/ Transferred(e)

\* No import and no model changes the category of a payment that is there, however often
\* the statement is uploaded, and the model replaces a rule of the user's only if it was
\* asked when there was none, or when the query for it failed.
TheUserIsOverriddenByLateAnswersOnly ==
    [][/\ <<uploads, questions>>' # <<uploads, questions>> => \A e \in Rows : payments'[e] = payments[e]
       /\ \A m \in Merchants : UserRule(m) /\ rules'[m] # NoRow /\ rules'[m].source = "llm" =>
              \E i \in Imports : \E q \in questions[i] \ questions'[i] :
                  Statement[q.entry].merchant = m /\ (~q.ruled \/ q.failed)]_billVars
=============================================================================
