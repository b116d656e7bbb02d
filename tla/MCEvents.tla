------------------------------ MODULE MCEvents ------------------------------
(* Every event type with payloads of every kind, and chains of the handled  *)
(* types.                                                                   *)
EXTENDS DeadlineAlert

Keys == {"project_id", "id", "creator", "funding_goal", "deadline", "token", "contributor", "amount",
         "total_raised", "status", "escrow_id", "total_amount", "milestone_id", "funding_amount",
         "submitter", "approval_count", "rejection_count", "validators", "pool_id", "total_profit",
         "per_share", "claimer", "proposal_id", "proposer", "title", "voter", "support", "success",
         "user", "score", "delta", "badge", "payment_id", "payer", "payee", "recipient",
         "subscription_id", "subscriber", "plan", "reason", "bridge_id", "admin", "chain_id",
         "chain_name", "asset", "wrapped_asset", "depositor", "relayer", "tx_hash", "contract_id",
         "new_wasm_hash"}
Uniform(n) == Value("map", [k \in Keys |-> n])
Alike == {Native(k, 1) : k \in NativeKinds} \cup {Native("bool", 0), Native("list", 0)}
Payloads == {Uniform(n) : n \in Alike} \cup {Value(s, << >>) : s \in Shapes}
Event3(t, tx, v) == [type |-> t, tx |-> tx, value |-> v]
AnyEvent == {<<Event3(t, 1, v)>> : t \in ContractEventType, v \in Payloads}

Big(v) == Native("bigint", v)
Txt(v) == Native("text", v)
New(p, w, tx) ==
    Event3("proj_new", tx, Value("map", [id |-> Big(p), creator |-> Txt(w), funding_goal |-> Big(3),
                                         deadline |-> Big(1), token |-> Txt(9)]))
Contrib(p, w, amount, total, tx) ==
    Event3("contrib", tx, Value("map", [project_id |-> Big(p), contributor |-> Txt(w),
                                        amount |-> amount, total_raised |-> total]))
About(t, p, tx) ==
    Event3(t, tx, Value("map", [project_id |-> Big(p), milestone_id |-> Big(1), amount |-> Big(1)]))
Claim(w, tx) ==
    Event3("claim", tx, Value("map", [pool_id |-> Big(1), claimer |-> Txt(w), amount |-> Big(1)]))

Scenarios ==
    {<<New(1, 1, 1), Contrib(1, 1, Big(1), Big(1), 2), Contrib(1, 2, Big(2), Big(3), 3)>>,
     <<New(1, 1, 1), Contrib(1, 1, Big(1), Big(1), 2), Contrib(1, 2, Big(2), Big(3), 2)>>,
     <<New(1, 1, 1), Contrib(1, 2, Big(1), Txt(5), 2), About("proj_fail", 1, 3)>>,
     <<New(1, 1, 1), About("m_apprv", 1, 2), About("m_reject", 1, 3), About("release", 1, 4)>>,
     <<New(1, 1, 1), About("release", 1, 2), About("m_apprv", 1, 3), Claim(1, 4)>>,
     <<New(1, 1, 1), Contrib(1, 2, Big(2), Big(2), 2), About("m_apprv", 1, 3)>>,
     <<Contrib(1, 2, Big(1), Big(1), 1), New(1, 1, 2), Contrib(1, 2, Big(1), Big(2), 3)>>,
     <<New(0, 1, 1), New(1, 2, 2), About("proj_done", 1, 3)>>,
     <<New(5, 1, 1), New(10, 2, 2), About("proj_fail", 9, 3)>>,
     <<New(1, 1, 1), About("proj_done", 1, 2), Contrib(1, 2, Big(1), Big(1), 3), New(1, 2, 4)>>}
\* Two milestones of project 1, created after its second event.
MCMilestones ==
    [p \in ProjectIds |-> IF p = 1 THEN [count |-> 2, createdAt |-> 2]
                          ELSE [count |-> 0, createdAt |-> 0]]
MCChains == AnyEvent \cup Scenarios
=============================================================================
