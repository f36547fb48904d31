-------------------------- MODULE MCSeparateParts ---------------------------
(***************************************************************************)
(* Three parts of the system that share nothing, side by side: the login   *)
(* rate limit and the categories of payments of the Go server, and the     *)
(* cached answers of the data service.  A behaviour is one part's, and the *)
(* others stay in their initial state.                                     *)
(***************************************************************************)
EXTENDS LoginRateLimit, Bills, AnswerCaches, CachedFunctions, TLC

CONSTANTS t1, t2, a, b, m1, m2, iban

VARIABLE part   \* the one that is looked at

\* The first merchant is known to no keyword.
MCSeed == [m \in Merchants |-> IF m = m1 THEN Other ELSE CHOOSE c \in Categories : c # Transfer]
\* The second payment goes to an account that is known as a savings account after it.
MCStatement ==
    <<[kind |-> "payment", merchant |-> m1, account |-> NoAccount],
      [kind |-> "payment", merchant |-> m2, account |-> iban],
      [kind |-> "roundup", merchant |-> m2, account |-> iban],
      [kind |-> "payment", merchant |-> m1, account |-> NoAccount]>>

\* Nothing while another part is looked at; an ETF's data through all caches and their times to live; the
\* cache of the pages, the nested caches of a holding and those of a search, under two threads each.
Quiet == [functions |-> {}, threads |-> {}, funds |-> {}, horizon |-> 0]
MCScenarios ==
    {Quiet,
     [functions |-> {"get_etf_data"}, threads |-> {t1}, funds |-> {a}, horizon |-> 4],
     [functions |-> {"fetch_complete_etf_data_playwright"}, threads |-> {t1, t2}, funds |-> {a, b}, horizon |-> 1],
     [functions |-> {"get_ticker_details"}, threads |-> {t1, t2}, funds |-> {a}, horizon |-> 1],
     [functions |-> {"search_ticker_info"}, threads |-> {t1, t2}, funds |-> {a, b}, horizon |-> 1],
     [functions |-> {"convert_isin_to_ticker"}, threads |-> {t1, t2}, funds |-> {a, b}, horizon |-> 1]}

\* Threads and ETFs are interchangeable: a step depends on them through the scenario only.
Symmetries == Permutations(Threads) \union Permutations(Funds)

MCInit ==
    /\ part \in {"login", "bills", "caches"} /\ Init /\ BillsInit /\ CachesInit
    /\ part = "caches" <=> scenario # Quiet

MCNext ==
    /\ UNCHANGED part
    /\ \/ part = "login" /\ Next /\ UNCHANGED <<billVars, cacheVars>>
       \/ part = "bills" /\ BillsNext /\ UNCHANGED <<vars, cacheVars>>
       \/ part = "caches" /\ CachesNext /\ UNCHANGED <<vars, billVars>>

MCSpec == MCInit /\ [][MCNext]_<<part, vars, billVars, cacheVars>>
=============================================================================
