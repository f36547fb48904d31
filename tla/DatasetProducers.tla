-------------------------- MODULE DatasetProducers --------------------------
(***************************************************************************)
(* The 77 dataset producers that the main block of                         *)
(* extractText/saveDataToRag.py submits to its thread pool, one definition *)
(* per process_* function, under the function's own name.  A producer is   *)
(* described by what decides how it resumes and what it loses:             *)
(*                                                                         *)
(*   datasets  the datasets it goes through in order, each with its key in *)
(*             the progress file, the fields without which an item raises, *)
(*             and whether short items are passed over                     *)
(*   rag       every rag-th item is embedded (SAVE_PERIOD_TO_RAG)          *)
(*   save      every save-th item the progress is saved                    *)
(*             (SAVE_PROGRESS_INTERVAL)                                    *)
(*   guarded   the fields are read inside the try of the item: an item     *)
(*             that raises is passed over, its periodic save with it       *)
(*   outer     a try around the whole dataset: an error of the stream ends *)
(*             the dataset and not the thread                              *)
(*                                                                         *)
(* The text that is built from the fields, its category and its tokens are *)
(* left out.                                                               *)
(***************************************************************************)
EXTENDS Sequences

\* A row of a datasets_config: one dataset with its progress key.
Dataset(key, reads) == [key |-> key, reads |-> reads, short |-> FALSE]

\* The loop of one dataset, with the item's try around everything it does.
Producer(datasets, rag, save) ==
    [datasets |-> datasets, rag |-> rag, save |-> save, guarded |-> TRUE, outer |-> FALSE]

\* Each dataset of a list in an outer try of its own; all offsets are read once.
ProducerOfList(datasets, rag, save) == [Producer(datasets, rag, save) EXCEPT !.outer = TRUE]

\* The fields are read before the try, and the save follows it: a failed request
\* does not keep the progress from being saved, a missing field ends the thread.
process_am_deepseek_split(split_name) ==
    [Producer(<<Dataset(split_name, {"question", "answer"})>>, 128, 512) EXCEPT !.guarded = FALSE]

process_am_if_r1_2pass == process_am_deepseek_split("if_r1_2pass")
process_am_if_r1_3pass == process_am_deepseek_split("if_r1_3pass")
process_am_code_r1_2pass == process_am_deepseek_split("code_r1_2pass")
process_am_code_r1_4pass == process_am_deepseek_split("code_r1_4pass")
process_am_math_r1_2pass == process_am_deepseek_split("math_r1_2pass")
process_am_math_r1_3pass == process_am_deepseek_split("math_r1_3pass")
process_am_math_r1_4pass == process_am_deepseek_split("math_r1_4pass")
process_am_code_r1_1pass == process_am_deepseek_split("code_r1_1pass")
process_am_code_7b_1pass == process_am_deepseek_split("code_7b_1pass")
process_am_code_7b_2pass == process_am_deepseek_split("code_7b_2pass")
process_am_code_7b_3pass == process_am_deepseek_split("code_7b_3pass")
process_am_code_7b_4pass == process_am_deepseek_split("code_7b_4pass")
process_am_if_7b_1pass == process_am_deepseek_split("if_7b_1pass")
process_am_if_7b_2pass == process_am_deepseek_split("if_7b_2pass")
process_am_if_7b_3pass == process_am_deepseek_split("if_7b_3pass")
process_am_if_7b_4pass == process_am_deepseek_split("if_7b_4pass")
process_am_if_r1_1pass == process_am_deepseek_split("if_r1_1pass")
process_am_if_r1_4pass == process_am_deepseek_split("if_r1_4pass")
process_am_math_7b_1pass == process_am_deepseek_split("math_7b_1pass")
process_am_math_7b_2pass == process_am_deepseek_split("math_7b_2pass")
process_am_math_7b_3pass == process_am_deepseek_split("math_7b_3pass")
process_am_math_7b_4pass == process_am_deepseek_split("math_7b_4pass")

process_nextcoder == Producer(<<Dataset("nextcoder", {"completion", "prompt"})>>, 16, 512)
process_codeforces_py == Producer(<<Dataset("codeforces_py", {"messages"})>>, 16, 512)
process_codeforces == Producer(<<Dataset("codeforces", {"messages"})>>, 16, 512)
process_opc_sft == Producer(<<Dataset("opc_sft", {"instruction", "output"})>>, 16, 512)
process_codefeedback == Producer(<<Dataset("codefeedback", {"answer", "query"})>>, 16, 512)
process_leetcode == Producer(<<Dataset("leetcode", {"query", "response"})>>, 16, 512)

process_math_datasets ==
    ProducerOfList(<<Dataset("openmathre asoning", {"problem", "generated_solution"}),
                     Dataset("oda_math", {"question", "response"})>>, 24, 512)

\* Articles and abstracts below a length are passed over.
process_general_datasets ==
    ProducerOfList(<<Dataset("openthoughts", {"conversations"}),
                     [Dataset("arxiv", {"article", "abstract"}) EXCEPT !.short = TRUE],
                     Dataset("finefineweb", {"text"})>>, 32, 512)

\* One dataset in an outer try; its text has no think tags to remove.
process_the_stack_language(progress_key) ==
    ProducerOfList(<<Dataset(progress_key, {"content"})>>, 16, 512)

process_stack_python == process_the_stack_language("stack_python")
process_stack_go == process_the_stack_language("stack_go")
process_stack_c == process_the_stack_language("stack_c")
process_stack_cpp == process_the_stack_language("stack_cpp")
process_stack_rust == process_the_stack_language("stack_rust")
process_stack_javascript == process_the_stack_language("stack_js")
process_stack_typescript == process_the_stack_language("stack_ts")
process_stack_sql == process_the_stack_language("stack_sql")
process_stack_assembly == process_the_stack_language("stack_asm")

process_synthetic_1 ==
    Producer(<<Dataset("synthetic_1", {"gold_standard_solution", "llm_response", "prompt"})>>, 32, 512)
process_s1k == Producer(<<Dataset("s1k", {"question", "solution"})>>, 32, 512)
process_natural_reasoning ==
    Producer(<<Dataset("natural_reasoning", {"question", "reference_answer", "responses"})>>, 32, 512)

\* Every subject with its two splits.
LongKeys ==
    <<"long_advanced_math_train", "long_advanced_math_test",
      "long_advanced_physics_train", "long_advanced_physics_test",
      "long_chemistry_train", "long_chemistry_test",
      "long_computational_biology_train", "long_computational_biology_test",
      "long_finance_train", "long_finance_test",
      "long_games_train", "long_games_test",
      "long_graph_discrete_math_train", "long_graph_discrete_math_test",
      "long_logic_train", "long_logic_test",
      "long_mathematical_programming_train", "long_mathematical_programming_test",
      "long_medicine_train", "long_medicine_test",
      "long_programming_train", "long_programming_test",
      "long_security_and_safety_train", "long_security_and_safety_test">>

process_long ==
    ProducerOfList([j \in DOMAIN LongKeys |->
                      Dataset(LongKeys[j], {"question", "rationale", "final_answer"})], 32, 256)

process_stackoverflow == Producer(<<Dataset("stackoverflow", {"content"})>>, 32, 512)
process_truthful_qa == Producer(<<Dataset("truthful_qa", {"best_answer", "question"})>>, 32, 256)
process_linux_commands == Producer(<<Dataset("linux_commands", {"completion", "eng"})>>, 32, 256)

\* Every subject of the test.
MmluKeys ==
    <<"mmlu_abstract_algebra", "mmlu_anatomy", "mmlu_astronomy", "mmlu_business_ethics",
      "mmlu_clinical_knowledge", "mmlu_college_biology", "mmlu_college_chemistry",
      "mmlu_college_computer_science", "mmlu_college_mathematics", "mmlu_college_medicine",
      "mmlu_college_physics", "mmlu_computer_security", "mmlu_conceptual_physics",
      "mmlu_econometrics", "mmlu_electrical_engineering", "mmlu_elementary_mathematics",
      "mmlu_formal_logic", "mmlu_global_facts", "mmlu_high_school_biology",
      "mmlu_high_school_chemistry", "mmlu_high_school_computer_science",
      "mmlu_high_school_european_history", "mmlu_high_school_geography",
      "mmlu_high_school_government_and_politics", "mmlu_high_school_macroeconomics",
      "mmlu_high_school_mathematics", "mmlu_high_school_microeconomics",
      "mmlu_high_school_physics", "mmlu_high_school_psychology", "mmlu_high_school_statistics",
      "mmlu_high_school_us_history", "mmlu_high_school_world_history", "mmlu_human_aging",
      "mmlu_human_sexuality", "mmlu_international_law", "mmlu_jurisprudence",
      "mmlu_logical_fallacies", "mmlu_machine_learning", "mmlu_management", "mmlu_marketing",
      "mmlu_medical_genetics", "mmlu_miscellaneous", "mmlu_moral_disputes",
      "mmlu_moral_scenarios", "mmlu_nutrition", "mmlu_philosophy", "mmlu_prehistory",
      "mmlu_professional_accounting", "mmlu_professional_law", "mmlu_professional_medicine",
      "mmlu_professional_psychology", "mmlu_public_relations", "mmlu_security_studies",
      "mmlu_sociology", "mmlu_us_foreign_policy", "mmlu_virology", "mmlu_world_religions">>

process_mmlu ==
    ProducerOfList([j \in DOMAIN MmluKeys |->
                      Dataset(MmluKeys[j], {"question", "choices", "answer"})], 32, 128)

process_cosmo_1B_claude_taxonomy220 ==
    Producer(<<Dataset("cosmo_1B_claude_taxonomy220", {"prompt", "text"})>>, 32, 256)
process_oh_dcft_v3_1_claude_3_5_haiku_20241022 ==
    Producer(<<Dataset("oh_dcft_v3_1_claude_3_5_haiku_20241022", {"conversations"})>>, 32, 256)
proccess_chatbot_arena_conversations ==
    Producer(<<Dataset("chatbot_arena_conversations", {"conversation_a", "conversation_b"})>>, 128, 256)
process_reasoning_conversations_advanced_1m ==
    Producer(<<Dataset("reasoning_conversations_advanced_1m", {"final_answer", "question"})>>, 128, 256)
process_reason_code_search_net_python ==
    Producer(<<Dataset("reason_code_search_net_python", {"INSTRUCTION", "RESPONSE"})>>, 32, 256)
process_wiki_qa == Producer(<<Dataset("wiki_qa", {"answer", "question"})>>, 24, 256)
process_triviaqa == Producer(<<Dataset("triviaqa", {"answers", "question"})>>, 24, 256)

\* The subset without reasoning has messages only.
process_dolphin_r1 ==
    ProducerOfList(<<Dataset("dolphin_r1_nonreasoning", {"messages"}),
                     Dataset("dolphin_r1_reasoning-deepseek", {"messages", "reasoning", "answer"}),
                     Dataset("dolphin_r1_reasoning-flash", {"messages", "reasoning", "answer"})>>, 32, 256)

process_textbooks_are_all_you_need_lite ==
    Producer(<<Dataset("textbooks_are_all_you_need_lite", {"completion", "formatted_prompt"})>>, 32, 256)
process_leet10k_alpaca ==
    Producer(<<Dataset("leet10k_alpaca", {"input", "instruction", "output"})>>, 32, 256)
process_TextbookReasoning ==
    Producer(<<Dataset("TextbookReasoning", {"answer", "question", "reference_answer"})>>, 32, 256)
process_cosmopedia_v2_textbook_and_howto_8_3m ==
    Producer(<<Dataset("cosmopedia_v2_textbook_and_howto_8_3m", {"text"})>>, 32, 256)
process_science_theory_textbooks ==
    Producer(<<Dataset("science_theory_textbooks", {"text"})>>, 32, 256)
proccess_the_pile_github == Producer(<<Dataset("the_pile_github", {"text"})>>, 32, 256)
procces_ODA_Mixture_100k ==
    Producer(<<Dataset("ODA_Mixture_100k", {"instruction", "response"})>>, 32, 256)
process_golang_coder == Producer(<<Dataset("golang_coder", {"messages"})>>, 32, 256)
process_LiteCoder_SFT_Terminal_preview ==
    Producer(<<Dataset("LiteCoder_SFT_Terminal_preview", {"conversations"})>>, 32, 256)
process_dolphin_coder == Producer(<<Dataset("dolphin_coder", {"question", "response"})>>, 32, 256)
proccess_textbook_codex == Producer(<<Dataset("textbook_codex", {"text"})>>, 32, 256)
process_OpenCodeReasoning ==
    Producer(<<Dataset("OpenCodeReasoning", {"input", "output"})>>, 32, 256)
process_pile == Producer(<<Dataset("pile", {"text"})>>, 128, 256)
proccess_MegaMath_Web_Pro_Max == Producer(<<Dataset("MegaMath_Web_Pro_Max", {"text"})>>, 256, 256)
proccess_FineFineWeb == Producer(<<Dataset("FineFineWeb", {"text"})>>, 512, 256)
proccess_pretraining_v1_omega_books ==
    Producer(<<Dataset("pretraining_v1_omega_books", {"text"})>>, 512, 256)
proccess_c4 == Producer(<<Dataset("c4", {"text"})>>, 512, 256)
process_reddit_dataset_157 == Producer(<<Dataset("reddit_dataset_157", {"text"})>>, 512, 256)
procces_top_reddit_posts_daily ==
    Producer(<<Dataset("top_reddit_posts_daily", {"text"})>>, 512, 256)
procces_codesearchnet_qa ==
    Producer(<<Dataset("codesearchnet_qa", {"answer", "question", "whole_func_string"})>>, 512, 256)
procces_comma_v0_1_training_dataset ==
    Producer(<<Dataset("comma_v0_1_training_dataset", {"text"})>>, 512, 256)
procces_IndustryCorpus_news == Producer(<<Dataset("IndustryCorpus_news", {"text"})>>, 512, 256)

\* What the main block submits to its pool of 64 threads.
MainProducers ==
    {process_am_if_r1_2pass, process_am_if_r1_3pass, process_am_code_r1_2pass,
     process_am_code_r1_4pass, process_am_math_r1_2pass, process_am_math_r1_3pass,
     process_am_math_r1_4pass, process_am_code_r1_1pass, process_am_code_7b_1pass,
     process_am_code_7b_2pass, process_am_code_7b_3pass, process_am_code_7b_4pass,
     process_am_if_7b_1pass, process_am_if_7b_2pass, process_am_if_7b_3pass,
     process_am_if_7b_4pass, process_am_if_r1_1pass, process_am_if_r1_4pass,
     process_am_math_7b_1pass, process_am_math_7b_2pass, process_am_math_7b_3pass,
     process_am_math_7b_4pass, process_nextcoder, process_codeforces_py, process_codeforces,
     process_opc_sft, process_codefeedback, process_leetcode, process_math_datasets,
     process_general_datasets, process_stack_python, process_stack_go, process_stack_c,
     process_stack_cpp, process_stack_rust, process_stack_javascript, process_stack_typescript,
     process_stack_sql, process_stack_assembly, process_synthetic_1, process_s1k,
     process_natural_reasoning, process_long, process_stackoverflow, process_truthful_qa,
     process_linux_commands, process_mmlu, process_cosmo_1B_claude_taxonomy220,
     process_oh_dcft_v3_1_claude_3_5_haiku_20241022, process_reason_code_search_net_python,
     process_wiki_qa, process_triviaqa, process_dolphin_r1,
     process_textbooks_are_all_you_need_lite, process_leet10k_alpaca, process_TextbookReasoning,
     process_cosmopedia_v2_textbook_and_howto_8_3m, process_science_theory_textbooks,
     proccess_the_pile_github, procces_ODA_Mixture_100k, process_golang_coder,
     process_LiteCoder_SFT_Terminal_preview, process_dolphin_coder, proccess_textbook_codex,
     process_OpenCodeReasoning, process_pile, proccess_MegaMath_Web_Pro_Max,
     proccess_FineFineWeb, proccess_pretraining_v1_omega_books, proccess_c4,
     process_reddit_dataset_157, procces_top_reddit_posts_daily, procces_codesearchnet_qa,
     procces_comma_v0_1_training_dataset, procces_IndustryCorpus_news,
     proccess_chatbot_arena_conversations, process_reasoning_conversations_advanced_1m}

\* The keys under which they save their progress in one file differ.
ASSUME MainKeysDiffer ==
    \A p, q \in MainProducers : \A i \in DOMAIN p.datasets, j \in DOMAIN q.datasets :
        p.datasets[i].key = q.datasets[j].key => p = q /\ i = j
=============================================================================
