--------------------------- MODULE CachedFunctions ---------------------------
(***************************************************************************)
(* The functions of the data service whose results are cached: those of    *)
(* src/getAssets.py by its ttl_cache, those of src/getData.py by Python's  *)
(* lru_cache.  A function is described by what decides how old its results *)
(* can be:                                                                 *)
(*                                                                         *)
(*   hours    how long a result is kept; 0 is as long as there is room     *)
(*   maxsize  how many results are kept                                    *)
(*   body     what it does in order: it reads its source, or calls another *)
(*            of the functions; a step is left out if one before it failed *)
(*   shared   its argument is a holding, which several ETFs have           *)
(*                                                                         *)
(* A call with "caught" is in a try: an exception makes it fail.  What is  *)
(* extracted from a source is left out.                                    *)
(***************************************************************************)
EXTENDS Sequences

Read == [does |-> "read"]
Call(function) == [does |-> "call", function |-> function, caught |-> FALSE]
TryCall(function) == [does |-> "call", function |-> function, caught |-> TRUE]

ttl_cached(maxsize, hours, body) == [hours |-> hours, maxsize |-> maxsize, body |-> body, shared |-> FALSE]
lru_cached(maxsize, body) == ttl_cached(maxsize, 0, body)
OfHolding(f) == [f EXCEPT !.shared = TRUE]

\* What a page says of its own ISIN and ticker; the page is the argument.
extract_isin_and_ticker_from_justetf == ttl_cached(256, 4, <<>>)

\* justetf.com in a browser: one page with holdings, sectors and regions.
fetch_complete_etf_data_playwright ==
    ttl_cached(64, 4, <<Read, TryCall("extract_isin_and_ticker_from_justetf")>>)

\* Yahoo's ISIN of a ticker, in several ways.
fetch_isin_from_multiple_sources == OfHolding(ttl_cached(512, 4, <<Read>>))

\* Yahoo's name, exchange, sector and country of a ticker.
get_ticker_details ==
    OfHolding(ttl_cached(512, 4, <<Read, TryCall("fetch_isin_from_multiple_sources")>>))

\* OpenFIGI's ticker of an ISIN.
get_ticker_from_isin == OfHolding(ttl_cached(512, 24, <<Read>>))

\* enrich_holdings_with_details: the ticker of a holding, and if there is one its details.
enrich_holdings_with_details == <<Call("get_ticker_from_isin"), TryCall("get_ticker_details")>>

get_etf_data ==
    ttl_cached(64, 4, <<Call("fetch_complete_etf_data_playwright")>> \o enrich_holdings_with_details)

\* The costs and the distribution policy of an ETF from three sites in turn.
get_etf_ter_and_policy == lru_cached(128, <<Read>>)

\* Yahoo's search, enriched by the costs of the first ETFs that it finds.
search_ticker_info == lru_cached(128, <<Read, TryCall("get_etf_ter_and_policy")>>)

\* OpenFIGI's ticker of an ISIN again, for the endpoint.
convert_isin_to_ticker == lru_cached(512, <<Read>>)

AllFunctions ==
    [get_etf_data |-> get_etf_data,
     fetch_complete_etf_data_playwright |-> fetch_complete_etf_data_playwright,
     extract_isin_and_ticker_from_justetf |-> extract_isin_and_ticker_from_justetf,
     get_ticker_from_isin |-> get_ticker_from_isin,
     get_ticker_details |-> get_ticker_details,
     fetch_isin_from_multiple_sources |-> fetch_isin_from_multiple_sources,
     search_ticker_info |-> search_ticker_info,
     get_etf_ter_and_policy |-> get_etf_ter_and_policy,
     convert_isin_to_ticker |-> convert_isin_to_ticker]
=============================================================================
