----------------------------- MODULE XdrDecoder -----------------------------
(***************************************************************************)
(* XdrDecoderService: what becomes of the value of a contract event.       *)
(*                                                                         *)
(* scValToNative yields a map from keys to native values, or a list or a   *)
(* scalar, in which no key is found.  A native value is a kind and its     *)
(* content v: a bigint, a number (32 bits), a string of digits, another    *)
(* text (an address is one), the empty string, a Boolean or a list.  A     *)
(* decoded value has the type of the TypeScript value; its form tells      *)
(* strings apart.  Keys are compared as they are: the lookup that ignores  *)
(* case finds no other key in an event of the contracts.                   *)
(***************************************************************************)
EXTENDS Integers, EventTypes

CONSTANTS MaxSafe,      \* 2^53, up to which a number holds every integer
          Spacings      \* 1, 2, 4, ...: the distance of numbers above it

ASSUME MaxSafeAssumption == MaxSafe \in Nat \ {0} /\ MaxSafe % 2 = 0

ASSUME SpacingsAssumption ==
    /\ Spacings \subseteq Nat \ {0} /\ 1 \in Spacings
    /\ \A s \in Spacings : s = 1 \/ (s % 2 = 0 /\ s \div 2 \in Spacings)

\* The integers up to the widest that Spacings reaches.
Content == {v \in Nat : \E s \in Spacings : v <= MaxSafe * s}

NativeKinds == {"bigint", "number", "digits", "text", "empty", "bool", "list"}
NativeValue == [kind: NativeKinds, v: Content]
Native(kind, v) == [kind |-> kind, v |-> v]
None == Native("none", 0)

Forms == {"empty", "digits", "text", "bool"}
StringValue == [type: {"string"}, form: Forms, v: Nat]
Number(v) == [type |-> "number", form |-> "digits", v |-> v]
String(form, v) == [type |-> "string", form |-> form, v |-> v]
Digits(v) == String("digits", v)
Empty == String("empty", 0)

\* A double has 53 bits: numbers are 2 apart above 2^53, 4 above 2^54, and so on.
Spacing(v) ==
    CHOOSE s \in Spacings : v <= MaxSafe * s /\ \A t \in Spacings : v <= MaxSafe * t => s <= t

\* Number() rounds to the nearest, a tie to the one with an even mantissa.
ToNumber(v) ==
    LET s == Spacing(v)  r == v % s IN
    IF 2 * r < s \/ (2 * r = s /\ (v - r) % (2 * s) = 0) THEN v - r ELSE v - r + s

-----------------------------------------------------------------------------
\* Helpers for field extraction

Field(o, key) == IF key \in DOMAIN o THEN o[key] ELSE None
Either(o, key, alt) == IF Field(o, key) # None THEN Field(o, key) ELSE Field(o, alt)

Str(x) ==
    CASE x.kind \in {"none", "empty"}            -> Empty
      [] x.kind \in {"bigint", "number", "digits"} -> Digits(x.v)
      [] x.kind \in {"text", "bool"}             -> String(x.kind, x.v)
      [] x.kind = "list"                          -> IF x.v = 0 THEN Empty ELSE String("text", x.v)

Num(x) ==
    Number(CASE x.kind \in {"bigint", "digits"} -> ToNumber(x.v)
             [] x.kind = "number"               -> x.v
             [] OTHER                           -> 0)

BigStr(x) ==
    CASE x.kind \in {"bigint", "number", "digits"} -> Digits(x.v)
      [] x.kind = "text"                          -> String("text", x.v)
      [] x.kind = "empty"                         -> Empty
      [] OTHER                                    -> Digits(0)

\* Mutant: only the second key is looked up.
ProjectIdShort(o) == Num(Field(o, "id"))

ProjectId(o) == Num(Either(o, "project_id", "id"))

\* status || 'unknown'; the number of validators or what stands for it; success.
OrUnknown(s) == IF s = Empty THEN String("text", 0) ELSE s
LengthOr(x) == IF x.kind = "list" THEN Number(x.v) ELSE Num(x)
IsTrue(x) ==
    [type |-> "boolean", form |-> "bool", v |-> IF x = Native("bool", 1) THEN 1 ELSE 0]

-----------------------------------------------------------------------------
\* Decoder implementations

\* Mutant: the deadline is kept as a string of digits.
DecodeProjectCreatedText(o) ==
    [projectId |-> ProjectId(o), creator |-> Str(Either(o, "creator", "owner")),
     fundingGoal |-> BigStr(Either(o, "funding_goal", "goal")),
     deadline |-> BigStr(Field(o, "deadline")), token |-> Str(Field(o, "token"))]

DecodeProjectCreated(o) ==
    [projectId |-> ProjectId(o), creator |-> Str(Either(o, "creator", "owner")),
     fundingGoal |-> BigStr(Either(o, "funding_goal", "goal")),
     deadline |-> Num(Field(o, "deadline")), token |-> Str(Field(o, "token"))]
DecodeProjectFunded(o) ==
    [projectId |-> ProjectId(o), amount |-> BigStr(Field(o, "amount")),
     totalRaised |-> BigStr(Field(o, "total_raised"))]
DecodeProjectStatus(o) == [projectId |-> ProjectId(o), status |-> OrUnknown(Str(Field(o, "status")))]
DecodeContributionMade(o) ==
    [projectId |-> ProjectId(o), contributor |-> Str(Either(o, "contributor", "investor")),
     amount |-> BigStr(Field(o, "amount")), totalRaised |-> BigStr(Field(o, "total_raised"))]
DecodeRefundIssued(o) ==
    [projectId |-> ProjectId(o), contributor |-> Str(Field(o, "contributor")),
     amount |-> BigStr(Field(o, "amount"))]
DecodeEscrowInitialized(o) ==
    [projectId |-> ProjectId(o), escrowId |-> Str(Field(o, "escrow_id")),
     totalAmount |-> BigStr(Field(o, "total_amount"))]
DecodeFundsLocked(o) ==
    [projectId |-> ProjectId(o), milestoneId |-> Num(Field(o, "milestone_id")),
     amount |-> BigStr(Field(o, "amount"))]
DecodeFundsReleased(o) ==
    [projectId |-> ProjectId(o), milestoneId |-> Num(Field(o, "milestone_id")),
     amount |-> BigStr(Field(o, "amount"))]
DecodeMilestoneCreated(o) ==
    [projectId |-> ProjectId(o), milestoneId |-> Num(Field(o, "milestone_id")),
     fundingAmount |-> BigStr(Field(o, "funding_amount"))]
DecodeMilestoneSubmitted(o) ==
    [projectId |-> ProjectId(o), milestoneId |-> Num(Field(o, "milestone_id")),
     submitter |-> Str(Field(o, "submitter"))]
DecodeMilestoneApproved(o) ==
    [projectId |-> ProjectId(o), milestoneId |-> Num(Field(o, "milestone_id")),
     approvalCount |-> Num(Field(o, "approval_count"))]
DecodeMilestoneRejected(o) ==
    [projectId |-> ProjectId(o), milestoneId |-> Num(Field(o, "milestone_id")),
     rejectionCount |-> Num(Field(o, "rejection_count"))]
DecodeMilestoneCompleted(o) ==
    [projectId |-> ProjectId(o), milestoneId |-> Num(Field(o, "milestone_id"))]
DecodeValidatorsUpdated(o) ==
    [projectId |-> ProjectId(o),
     validatorCount |-> LengthOr(Field(o, "validators"))]
DecodeProfitDistributed(o) ==
    [poolId |-> Str(Field(o, "pool_id")), totalProfit |-> BigStr(Field(o, "total_profit")),
     perShare |-> BigStr(Field(o, "per_share"))]
DecodeDividendClaimed(o) ==
    [poolId |-> Str(Field(o, "pool_id")), claimer |-> Str(Field(o, "claimer")),
     amount |-> BigStr(Field(o, "amount"))]
DecodeProposalCreated(o) ==
    [proposalId |-> Num(Field(o, "proposal_id")), proposer |-> Str(Field(o, "proposer")),
     title |-> Str(Field(o, "title"))]
DecodeVoteCast(o) ==
    [proposalId |-> Num(Field(o, "proposal_id")), voter |-> Str(Field(o, "voter")),
     support |-> Str(Field(o, "support"))]
DecodeProposalExecuted(o) ==
    [proposalId |-> Num(Field(o, "proposal_id")),
     success |-> IsTrue(Field(o, "success"))]
DecodeUserRegistered(o) == [user |-> Str(Either(o, "user", "address"))]
DecodeReputationUpdated(o) ==
    [user |-> Str(Either(o, "user", "address")), score |-> Num(Field(o, "score")),
     delta |-> Num(Field(o, "delta"))]
DecodeBadgeEarned(o) ==
    [user |-> Str(Either(o, "user", "address")), badge |-> Str(Field(o, "badge"))]
DecodePaymentSetup(o) ==
    [paymentId |-> Str(Field(o, "payment_id")), payer |-> Str(Field(o, "payer")),
     payee |-> Str(Field(o, "payee"))]
DecodePaymentReceived(o) ==
    [paymentId |-> Str(Field(o, "payment_id")), amount |-> BigStr(Field(o, "amount"))]
DecodePaymentWithdrawn(o) ==
    [paymentId |-> Str(Field(o, "payment_id")), recipient |-> Str(Field(o, "recipient")),
     amount |-> BigStr(Field(o, "amount"))]
DecodeSubscriptionCreated(o) ==
    [subscriptionId |-> Str(Field(o, "subscription_id")),
     subscriber |-> Str(Field(o, "subscriber")), plan |-> Str(Field(o, "plan")),
     amount |-> BigStr(Field(o, "amount"))]
DecodeSubscriptionStatus(o) ==
    [subscriptionId |-> Str(Field(o, "subscription_id")), status |-> Str(Field(o, "status"))]
DecodeSubscriptionModified(o) ==
    [subscriptionId |-> Str(Field(o, "subscription_id")), plan |-> Str(Field(o, "plan")),
     amount |-> BigStr(Field(o, "amount"))]
DecodePaymentFailed(o) ==
    [subscriptionId |-> Str(Field(o, "subscription_id")), reason |-> Str(Field(o, "reason"))]
DecodeSubscriptionPayment(o) ==
    [subscriptionId |-> Str(Field(o, "subscription_id")),
     amount |-> BigStr(Field(o, "amount"))]
DecodeBridgeInitialized(o) ==
    [bridgeId |-> Str(Field(o, "bridge_id")), admin |-> Str(Field(o, "admin"))]
DecodeChainAdded(o) ==
    [chainId |-> Num(Field(o, "chain_id")), chainName |-> Str(Field(o, "chain_name"))]
DecodeChainRemoved(o) == [chainId |-> Num(Field(o, "chain_id"))]
DecodeAssetWrapped(o) ==
    [asset |-> Str(Field(o, "asset")), wrappedAsset |-> Str(Field(o, "wrapped_asset")),
     amount |-> BigStr(Field(o, "amount"))]
DecodeAssetUnwrapped(o) ==
    [asset |-> Str(Field(o, "asset")), amount |-> BigStr(Field(o, "amount"))]
DecodeBridgeDeposit(o) ==
    [chainId |-> Num(Field(o, "chain_id")), depositor |-> Str(Field(o, "depositor")),
     amount |-> BigStr(Field(o, "amount"))]
DecodeBridgeWithdraw(o) ==
    [chainId |-> Num(Field(o, "chain_id")), recipient |-> Str(Field(o, "recipient")),
     amount |-> BigStr(Field(o, "amount"))]
DecodeBridgeLifecycle(o) == [bridgeId |-> Str(Field(o, "bridge_id"))]
DecodeRelayer(o) == [relayer |-> Str(Field(o, "relayer"))]
DecodeBridgeTx(o) ==
    [txHash |-> Str(Either(o, "tx_hash", "hash")), status |-> Str(Field(o, "status"))]
DecodeContractLifecycle(o) == [contractId |-> Str(Either(o, "contract_id", "contract"))]
DecodeUpgrade(o) ==
    [contractId |-> Str(Either(o, "contract_id", "contract")),
     newWasmHash |-> Str(Either(o, "new_wasm_hash", "wasm_hash"))]

\* The decoder of an event type; every type has one.
Decoders(t, o) ==
    CASE t = "proj_new" -> DecodeProjectCreated(o)
      [] t = "proj_fund" -> DecodeProjectFunded(o)
      [] t \in {"proj_done", "proj_fail"} -> DecodeProjectStatus(o)
      [] t = "contrib" -> DecodeContributionMade(o)
      [] t = "refund" -> DecodeRefundIssued(o)
      [] t = "esc_init" -> DecodeEscrowInitialized(o)
      [] t = "lock" -> DecodeFundsLocked(o)
      [] t = "release" -> DecodeFundsReleased(o)
      [] t = "m_create" -> DecodeMilestoneCreated(o)
      [] t = "m_submit" -> DecodeMilestoneSubmitted(o)
      [] t = "m_apprv" -> DecodeMilestoneApproved(o)
      [] t = "m_reject" -> DecodeMilestoneRejected(o)
      [] t = "milestone" -> DecodeMilestoneCompleted(o)
      [] t = "v_update" -> DecodeValidatorsUpdated(o)
      [] t = "profit" -> DecodeProfitDistributed(o)
      [] t = "claim" -> DecodeDividendClaimed(o)
      [] t = "proposal" -> DecodeProposalCreated(o)
      [] t = "vote" -> DecodeVoteCast(o)
      [] t = "execute" -> DecodeProposalExecuted(o)
      [] t = "user_reg" -> DecodeUserRegistered(o)
      [] t = "rep_up" -> DecodeReputationUpdated(o)
      [] t = "badge" -> DecodeBadgeEarned(o)
      [] t = "pay_setup" -> DecodePaymentSetup(o)
      [] t = "pay_recv" -> DecodePaymentReceived(o)
      [] t = "pay_withd" -> DecodePaymentWithdrawn(o)
      [] t = "subscr" -> DecodeSubscriptionCreated(o)
      [] t \in {"sub_cancl", "sub_pause", "sub_resum"} -> DecodeSubscriptionStatus(o)
      [] t = "sub_mod" -> DecodeSubscriptionModified(o)
      [] t = "pay_fail" -> DecodePaymentFailed(o)
      [] t = "deposit" -> DecodeSubscriptionPayment(o)
      [] t = "br_init" -> DecodeBridgeInitialized(o)
      [] t = "chain_add" -> DecodeChainAdded(o)
      [] t = "chain_rem" -> DecodeChainRemoved(o)
      [] t = "wrap" -> DecodeAssetWrapped(o)
      [] t = "unwrap" -> DecodeAssetUnwrapped(o)
      [] t = "br_dep" -> DecodeBridgeDeposit(o)
      [] t = "br_wdraw" -> DecodeBridgeWithdraw(o)
      [] t \in {"br_pause", "br_res"} -> DecodeBridgeLifecycle(o)
      [] t \in {"rel_add", "rel_rem"} -> DecodeRelayer(o)
      [] t \in {"tx_conf", "tx_fail"} -> DecodeBridgeTx(o)
      [] t \in {"esc_pause", "esc_resum"} -> DecodeContractLifecycle(o)
      [] t \in {"upg_sched", "upg_exec", "upg_canc"} -> DecodeUpgrade(o)

-----------------------------------------------------------------------------
\* A value as the network delivers it.
Value(shape, fields) == [shape |-> shape, fields |-> fields]
Shapes == {"map", "other", "invalid"}

Quarantined == [quarantined |-> TRUE]

\* asObject: a list or a scalar has none of the keys.
AsObject(value) ==
    IF value.shape = "map" THEN value.fields ELSE [k \in {} |-> None]

\* decode: only XDR that does not parse is quarantined, since no decoder throws.
Decode(t, value) ==
    IF value.shape = "invalid" THEN Quarantined ELSE Decoders(t, AsObject(value))

IsQuarantined(data) == "quarantined" \in DOMAIN data
=============================================================================
