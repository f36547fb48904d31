---------------------------- MODULE CorpusSections ----------------------------
(***************************************************************************)
(* The sections of extractText/tokenizeDataSets.py: each one goes through  *)
(* the items of one dataset and collects their texts.  A section is        *)
(* described by what decides which texts it collects:                      *)
(*                                                                         *)
(*   reads   the fields without which an item raises, and is passed over   *)
(*   limit   MAX_COUNT; 0 is none                                          *)
(*   counts  what the limit counts: the items seen, or the items taken     *)
(*   passes  items that are short or empty are passed over                 *)
(*   texts   the texts of an item                                          *)
(*                                                                         *)
(* The text that is built from the fields and its tokens are left out.     *)
(***************************************************************************)
EXTENDS Sequences

\* The loop that counts every item, whatever becomes of it.
Seen(reads, limit) == [reads |-> reads, limit |-> limit, counts |-> "seen", passes |-> FALSE, texts |-> 1]

\* The loop that counts the items whose text was collected.
Taken(reads, limit) == [Seen(reads, limit) EXCEPT !.counts = "taken"]

Passing(section) == [section EXCEPT !.passes = TRUE]

next_coder == Seen({"prompt", "completion"}, 1)
open_thoughts == Taken({"conversations"}, 1)
codeforces_python == Taken({"messages"}, 1)
codeforces_general == Taken({"messages"}, 1)
open_math_reasoning == Taken({"problem", "generated_solution"}, 50000)
arxiv_summarization == Passing(Taken({"article", "abstract"}, 1))
train_csv == Seen({"prompt"}, 1)
problem_solution_python == Passing(Taken({"Problem", "Python Code"}, 1))
news == [Seen({"summary", "text"}, 0) EXCEPT !.texts = 2]
daily_sentiment == Seen({"summary"}, 0)
portfolio_daily_sentiment == Seen({"summary"}, 0)
math_samples == Passing(Seen({}, 1))
opc_sft_stage2 == Seen({"instruction", "output"}, 1)
code_feedback == Seen({"query", "answer", "lang"}, 1)
the_stack == Seen({"content"}, 1)
the_stack_c == Seen({"content"}, 1)
the_stack_go == Seen({"content"}, 1)
the_stack_python == Seen({"content"}, 1)
the_stack_rust == Seen({"content"}, 1)
the_stack_cpp == Seen({"content"}, 25000)
the_stack_sql == Seen({"content"}, 10000)
the_stack_assembly == Seen({"content"}, 15000)
the_stack_typescript == Seen({"content"}, 10000)
the_stack_javascript == Seen({"content"}, 1)
oda_math == Seen({"question", "response", "expected_answer"}, 50000)
fine_fine_web_validation == Seen({"text"}, 1)
fine_fine_web == Seen({"text"}, 1)
leet_code == Seen({"query", "response"}, 1)

\* In the order of the program.
AllSections ==
    <<next_coder, open_thoughts, codeforces_python, codeforces_general,
      open_math_reasoning, arxiv_summarization, train_csv, problem_solution_python,
      news, daily_sentiment, portfolio_daily_sentiment, math_samples, opc_sft_stage2,
      code_feedback, the_stack, the_stack_c, the_stack_go, the_stack_python,
      the_stack_rust, the_stack_cpp, the_stack_sql, the_stack_assembly,
      the_stack_typescript, the_stack_javascript, oda_math, fine_fine_web_validation,
      fine_fine_web, leet_code>>
==============================================================================
