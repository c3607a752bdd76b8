---------------------------- MODULE MCProviders -----------------------------
EXTENDS Providers, TLC

CONSTANTS lmstudio, vllm, local, other, remote, unknown, t1

Order == <<lmstudio, vllm>>

Environment(default, l, v, llmOn) ==
    [default |-> default, endpoint |-> (lmstudio :> l @@ vllm :> v), llm |-> llmOn]

\* As shipped, with another default, with a remote or no endpoint, and search only.
Environments ==
    {Environment(lmstudio, local, NoEndpoint, TRUE),
     Environment(vllm, local, NoEndpoint, TRUE),
     Environment(vllm, remote, other, FALSE),
     Environment(unknown, local, other, FALSE)}

=============================================================================
