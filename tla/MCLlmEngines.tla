---------------------------- MODULE MCLlmEngines ----------------------------
(* Every order in which a reading thread and an HTTP engine can back each    *)
(* other up, with few texts, and one engine that cannot fail with texts that *)
(* meet every rule of the chunker.                                           *)
EXTENDS LlmEngines
AllTexts == {<<"w", "w">>, <<"w", ".">>, <<" ", "w">>, <<"d", ".", " ">>, <<",", " ">>, <<"nl">>}
FewTexts == {<<"w", ".">>, <<" ", "w">>}
MCTokens == [k \in {"openai", "anthropic", "bedrock", "mock"} |->
               IF k = "mock" THEN AllTexts ELSE FewTexts]
MCChains == {<<"bedrock", "anthropic">>, <<"openai", "bedrock">>, <<"mock">>}
=============================================================================
