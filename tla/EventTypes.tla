----------------------------- MODULE EventTypes -----------------------------
(***************************************************************************)
(* The event types of src/src/indexer/types/event-types.ts, and the shape  *)
(* that an interface declares for the data of each: field and type.        *)
(***************************************************************************)

ContractEventType ==
    {"proj_new", "proj_fund", "proj_done", "proj_fail", "contrib", "refund", "esc_init",
     "lock", "release", "m_create", "m_submit", "m_apprv", "m_reject", "milestone",
     "v_update", "profit", "claim", "proposal", "vote", "execute", "user_reg", "rep_up",
     "badge", "pay_setup", "pay_recv", "pay_withd", "subscr", "sub_cancl", "sub_mod",
     "sub_pause", "sub_resum", "pay_fail", "deposit", "br_init", "chain_add", "chain_rem",
     "wrap", "unwrap", "br_dep", "br_wdraw", "br_pause", "br_res", "rel_add", "rel_rem",
     "tx_conf", "tx_fail", "esc_pause", "esc_resum", "upg_sched", "upg_exec", "upg_canc"}

ProjectCreatedEvent ==
    [projectId |-> "number", creator |-> "string", fundingGoal |-> "string",
     deadline |-> "number", token |-> "string"]
ProjectFundedEvent ==
    [projectId |-> "number", amount |-> "string", totalRaised |-> "string"]
ContributionMadeEvent ==
    [projectId |-> "number", contributor |-> "string", amount |-> "string",
     totalRaised |-> "string"]
RefundIssuedEvent == [projectId |-> "number", contributor |-> "string", amount |-> "string"]
EscrowInitializedEvent ==
    [projectId |-> "number", escrowId |-> "string", totalAmount |-> "string"]
FundsLockedEvent == [projectId |-> "number", milestoneId |-> "number", amount |-> "string"]
FundsReleasedEvent ==
    [projectId |-> "number", milestoneId |-> "number", amount |-> "string"]
MilestoneCreatedEvent ==
    [projectId |-> "number", milestoneId |-> "number", fundingAmount |-> "string"]
MilestoneSubmittedEvent ==
    [projectId |-> "number", milestoneId |-> "number", submitter |-> "string"]
MilestoneApprovedEvent ==
    [projectId |-> "number", milestoneId |-> "number", approvalCount |-> "number"]
MilestoneRejectedEvent ==
    [projectId |-> "number", milestoneId |-> "number", rejectionCount |-> "number"]
MilestoneCompletedEvent == [projectId |-> "number", milestoneId |-> "number"]
ValidatorsUpdatedEvent == [projectId |-> "number", validatorCount |-> "number"]
ProfitDistributedEvent ==
    [poolId |-> "string", totalProfit |-> "string", perShare |-> "string"]
DividendClaimedEvent == [poolId |-> "string", claimer |-> "string", amount |-> "string"]
ProposalCreatedEvent == [proposalId |-> "number", proposer |-> "string", title |-> "string"]
VoteCastEvent == [proposalId |-> "number", voter |-> "string", support |-> "string"]
ProposalExecutedEvent == [proposalId |-> "number", success |-> "boolean"]
UserRegisteredEvent == [user |-> "string"]
ReputationUpdatedEvent == [user |-> "string", score |-> "number", delta |-> "number"]
BadgeEarnedEvent == [user |-> "string", badge |-> "string"]
PaymentSetupEvent == [paymentId |-> "string", payer |-> "string", payee |-> "string"]
PaymentReceivedEvent == [paymentId |-> "string", amount |-> "string"]
PaymentWithdrawnEvent ==
    [paymentId |-> "string", recipient |-> "string", amount |-> "string"]
SubscriptionCreatedEvent ==
    [subscriptionId |-> "string", subscriber |-> "string", plan |-> "string",
     amount |-> "string"]
SubscriptionStatusEvent == [subscriptionId |-> "string", status |-> "string"]
SubscriptionModifiedEvent ==
    [subscriptionId |-> "string", plan |-> "string", amount |-> "string"]
PaymentFailedEvent == [subscriptionId |-> "string", reason |-> "string"]
SubscriptionPaymentEvent == [subscriptionId |-> "string", amount |-> "string"]
BridgeInitializedEvent == [bridgeId |-> "string", admin |-> "string"]
SupportedChainAddedEvent == [chainId |-> "number", chainName |-> "string"]
SupportedChainRemovedEvent == [chainId |-> "number"]
AssetWrappedEvent == [asset |-> "string", wrappedAsset |-> "string", amount |-> "string"]
AssetUnwrappedEvent == [asset |-> "string", amount |-> "string"]
BridgeDepositEvent == [chainId |-> "number", depositor |-> "string", amount |-> "string"]
BridgeWithdrawEvent == [chainId |-> "number", recipient |-> "string", amount |-> "string"]
BridgeLifecycleEvent == [bridgeId |-> "string"]
RelayerEvent == [relayer |-> "string"]
BridgeTxEvent == [txHash |-> "string", status |-> "string"]
ContractLifecycleEvent == [contractId |-> "string"]
UpgradeEvent == [contractId |-> "string", newWasmHash |-> "string"]
ProjectStatusEvent == [projectId |-> "number", status |-> "string"]

\* The interface of an event type.
Declared(t) ==
    CASE t = "proj_new" -> ProjectCreatedEvent
      [] t = "proj_fund" -> ProjectFundedEvent
      [] t \in {"proj_done", "proj_fail"} -> ProjectStatusEvent
      [] t = "contrib" -> ContributionMadeEvent
      [] t = "refund" -> RefundIssuedEvent
      [] t = "esc_init" -> EscrowInitializedEvent
      [] t = "lock" -> FundsLockedEvent
      [] t = "release" -> FundsReleasedEvent
      [] t = "m_create" -> MilestoneCreatedEvent
      [] t = "m_submit" -> MilestoneSubmittedEvent
      [] t = "m_apprv" -> MilestoneApprovedEvent
      [] t = "m_reject" -> MilestoneRejectedEvent
      [] t = "milestone" -> MilestoneCompletedEvent
      [] t = "v_update" -> ValidatorsUpdatedEvent
      [] t = "profit" -> ProfitDistributedEvent
      [] t = "claim" -> DividendClaimedEvent
      [] t = "proposal" -> ProposalCreatedEvent
      [] t = "vote" -> VoteCastEvent
      [] t = "execute" -> ProposalExecutedEvent
      [] t = "user_reg" -> UserRegisteredEvent
      [] t = "rep_up" -> ReputationUpdatedEvent
      [] t = "badge" -> BadgeEarnedEvent
      [] t = "pay_setup" -> PaymentSetupEvent
      [] t = "pay_recv" -> PaymentReceivedEvent
      [] t = "pay_withd" -> PaymentWithdrawnEvent
      [] t = "subscr" -> SubscriptionCreatedEvent
      [] t \in {"sub_cancl", "sub_pause", "sub_resum"} -> SubscriptionStatusEvent
      [] t = "sub_mod" -> SubscriptionModifiedEvent
      [] t = "pay_fail" -> PaymentFailedEvent
      [] t = "deposit" -> SubscriptionPaymentEvent
      [] t = "br_init" -> BridgeInitializedEvent
      [] t = "chain_add" -> SupportedChainAddedEvent
      [] t = "chain_rem" -> SupportedChainRemovedEvent
      [] t = "wrap" -> AssetWrappedEvent
      [] t = "unwrap" -> AssetUnwrappedEvent
      [] t = "br_dep" -> BridgeDepositEvent
      [] t = "br_wdraw" -> BridgeWithdrawEvent
      [] t \in {"br_pause", "br_res"} -> BridgeLifecycleEvent
      [] t \in {"rel_add", "rel_rem"} -> RelayerEvent
      [] t \in {"tx_conf", "tx_fail"} -> BridgeTxEvent
      [] t \in {"esc_pause", "esc_resum"} -> ContractLifecycleEvent
      [] t \in {"upg_sched", "upg_exec", "upg_canc"} -> UpgradeEvent
=============================================================================
