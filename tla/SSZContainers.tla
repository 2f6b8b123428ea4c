--------------------------- MODULE SSZContainers ---------------------------
(***************************************************************************)
(* The tables of the generated codecs of this repository's own containers: *)
(* consensus types, beacon state, blob sidecars, withdrawals, signing data *)
(* and the validators of the genesis command.  See SSZCodec for the        *)
(* notation.                                                               *)
(***************************************************************************)
EXTENDS SSZCodec

Fork_MarshalSSZTo == [offset |-> 0, writes |->
    <<Put("PreviousVersion", 4), Put("CurrentVersion", 4), Put("Epoch", 8)>>]

Fork_UnmarshalSSZ == [size |-> 16, exact |-> TRUE, reads |->
    <<Get("PreviousVersion", 0, 4), Get("CurrentVersion", 4, 8), Get("Epoch", 8, 16)>>]

Fork_SizeSSZ == [base |-> 16, parts |-> <<>>]

Fork_HashTreeRootWith ==
    <<Leaf("PreviousVersion"), Leaf("CurrentVersion"), Leaf("Epoch")>>

Fork == Container(Fork_MarshalSSZTo, Fork_UnmarshalSSZ,
    Fork_SizeSSZ, Fork_HashTreeRootWith)

ForkData_MarshalSSZTo == [offset |-> 0, writes |->
    <<Put("CurrentVersion", 4), Put("GenesisValidatorsRoot", 32)>>]

ForkData_UnmarshalSSZ == [size |-> 36, exact |-> TRUE, reads |->
    <<Get("CurrentVersion", 0, 4), Get("GenesisValidatorsRoot", 4, 36)>>]

ForkData_SizeSSZ == [base |-> 36, parts |-> <<>>]

ForkData_HashTreeRootWith ==
    <<Leaf("CurrentVersion"), Leaf("GenesisValidatorsRoot")>>

ForkData == Container(ForkData_MarshalSSZTo, ForkData_UnmarshalSSZ,
    ForkData_SizeSSZ, ForkData_HashTreeRootWith)

SigningData_MarshalSSZTo == [offset |-> 0, writes |->
    <<Put("ObjectRoot", 32), Put("Domain", 32)>>]

SigningData_UnmarshalSSZ == [size |-> 64, exact |-> TRUE, reads |->
    <<Get("ObjectRoot", 0, 32), Get("Domain", 32, 64)>>]

SigningData_SizeSSZ == [base |-> 64, parts |-> <<>>]

SigningData_HashTreeRootWith ==
    <<Leaf("ObjectRoot"), Leaf("Domain")>>

SigningData == Container(SigningData_MarshalSSZTo, SigningData_UnmarshalSSZ,
    SigningData_SizeSSZ, SigningData_HashTreeRootWith)

Eth1Data_MarshalSSZTo == [offset |-> 0, writes |->
    <<Put("DepositRoot", 32), Put("DepositCount", 8), Put("BlockHash", 32)>>]

Eth1Data_UnmarshalSwapped == [size |-> 72, exact |-> TRUE, reads |->
    <<Get("DepositRoot", 0, 32), Get("BlockHash", 32, 64), Get("DepositCount", 64, 72)>>]
Eth1Data_UnmarshalSSZ == [size |-> 72, exact |-> TRUE, reads |->
    <<Get("DepositRoot", 0, 32), Get("DepositCount", 32, 40), Get("BlockHash", 40, 72)>>]

Eth1Data_SizeSSZ == [base |-> 72, parts |-> <<>>]

Eth1Data_HashTreeRootWith ==
    <<Leaf("DepositRoot"), Leaf("DepositCount"), Leaf("BlockHash")>>

Eth1Data == Container(Eth1Data_MarshalSSZTo, Eth1Data_UnmarshalSSZ,
    Eth1Data_SizeSSZ, Eth1Data_HashTreeRootWith)

BeaconBlockHeader_MarshalSSZTo == [offset |-> 0, writes |->
    <<Put("Slot", 8), Put("ProposerIndex", 8), Put("ParentBlockRoot", 32), Put("StateRoot", 32),
      Put("BodyRoot", 32)>>]

BeaconBlockHeader_UnmarshalSSZ == [size |-> 112, exact |-> TRUE, reads |->
    <<Get("Slot", 0, 8), Get("ProposerIndex", 8, 16), Get("ParentBlockRoot", 16, 48),
      Get("StateRoot", 48, 80), Get("BodyRoot", 80, 112)>>]

BeaconBlockHeader_SizeSSZ == [base |-> 112, parts |-> <<>>]

BeaconBlockHeader_HashTreeRootWith ==
    <<Leaf("Slot"), Leaf("ProposerIndex"), Leaf("ParentBlockRoot"), Leaf("StateRoot"),
      Leaf("BodyRoot")>>

BeaconBlockHeader == Container(BeaconBlockHeader_MarshalSSZTo, BeaconBlockHeader_UnmarshalSSZ,
    BeaconBlockHeader_SizeSSZ, BeaconBlockHeader_HashTreeRootWith)

DepositMessage_MarshalSSZTo == [offset |-> 0, writes |->
    <<Put("Pubkey", 48), Put("Credentials", 32), Put("Amount", 8)>>]

DepositMessage_UnmarshalSSZ == [size |-> 88, exact |-> TRUE, reads |->
    <<Get("Pubkey", 0, 48), Get("Credentials", 48, 80), Get("Amount", 80, 88)>>]

DepositMessage_SizeSSZ == [base |-> 88, parts |-> <<>>]

DepositMessage_HashTreeRootWith ==
    <<Leaf("Pubkey"), Leaf("Credentials"), Leaf("Amount")>>

DepositMessage == Container(DepositMessage_MarshalSSZTo, DepositMessage_UnmarshalSSZ,
    DepositMessage_SizeSSZ, DepositMessage_HashTreeRootWith)

Deposit_MarshalSSZTo == [offset |-> 0, writes |->
    <<Put("Pubkey", 48), Put("Credentials", 32), Put("Amount", 8), Put("Signature", 96),
      Put("Index", 8)>>]

Deposit_UnmarshalSSZ == [size |-> 192, exact |-> TRUE, reads |->
    <<Get("Pubkey", 0, 48), Get("Credentials", 48, 80), Get("Amount", 80, 88),
      Get("Signature", 88, 184), Get("Index", 184, 192)>>]

Deposit_SizeSSZ == [base |-> 192, parts |-> <<>>]

Deposit_HashTreeRootWith ==
    <<Leaf("Pubkey"), Leaf("Credentials"), Leaf("Amount"), Leaf("Signature"), Leaf("Index")>>

Deposit == Container(Deposit_MarshalSSZTo, Deposit_UnmarshalSSZ,
    Deposit_SizeSSZ, Deposit_HashTreeRootWith)

Validator_MarshalSSZTo == [offset |-> 0, writes |->
    <<Put("Pubkey", 48), Put("WithdrawalCredentials", 32), Put("EffectiveBalance", 8),
      Put("Slashed", 1), Put("ActivationEligibilityEpoch", 8), Put("ActivationEpoch", 8),
      Put("ExitEpoch", 8), Put("WithdrawableEpoch", 8)>>]

Validator_UnmarshalSSZ == [size |-> 121, exact |-> TRUE, reads |->
    <<Get("Pubkey", 0, 48), Get("WithdrawalCredentials", 48, 80), Get("EffectiveBalance", 80, 88),
      Get("Slashed", 88, 89), Get("ActivationEligibilityEpoch", 89, 97),
      Get("ActivationEpoch", 97, 105), Get("ExitEpoch", 105, 113),
      Get("WithdrawableEpoch", 113, 121)>>]

Validator_SizeSSZ == [base |-> 121, parts |-> <<>>]

Validator_HashTreeRootWith ==
    <<Leaf("Pubkey"), Leaf("WithdrawalCredentials"), Leaf("EffectiveBalance"), Leaf("Slashed"),
      Leaf("ActivationEligibilityEpoch"), Leaf("ActivationEpoch"), Leaf("ExitEpoch"),
      Leaf("WithdrawableEpoch")>>

Validator == Container(Validator_MarshalSSZTo, Validator_UnmarshalSSZ,
    Validator_SizeSSZ, Validator_HashTreeRootWith)

Withdrawal_MarshalSSZTo == [offset |-> 0, writes |->
    <<Put("Index", 8), Put("Validator", 8), Put("Address", 20), Put("Amount", 8)>>]

Withdrawal_UnmarshalSSZ == [size |-> 44, exact |-> TRUE, reads |->
    <<Get("Index", 0, 8), Get("Validator", 8, 16), Get("Address", 16, 36), Get("Amount", 36, 44)>>]

Withdrawal_SizeSSZ == [base |-> 44, parts |-> <<>>]

Withdrawal_HashTreeRootWith ==
    <<Leaf("Index"), Leaf("Validator"), Leaf("Address"), Leaf("Amount")>>

Withdrawal == Container(Withdrawal_MarshalSSZTo, Withdrawal_UnmarshalSSZ,
    Withdrawal_SizeSSZ, Withdrawal_HashTreeRootWith)

BlobSidecar_MarshalSSZTo == [offset |-> 0, writes |->
    <<Put("Index", 8), Put("Blob", 131072), Put("KzgCommitment", 48), Put("KzgProof", 48),
      PutObj("BeaconBlockHeader", BeaconBlockHeader), PutVec("InclusionProof", 8, 32)>>]

BlobSidecar_UnmarshalSSZ == [size |-> 131544, exact |-> TRUE, reads |->
    <<Get("Index", 0, 8), Get("Blob", 8, 131080), Get("KzgCommitment", 131080, 131128),
      Get("KzgProof", 131128, 131176),
      GetObj("BeaconBlockHeader", 131176, 131288, BeaconBlockHeader),
      GetVec("InclusionProof", 131288, 131544, 8, 32)>>]

BlobSidecar_SizeSSZ == [base |-> 131544, parts |-> <<>>]

BlobSidecar_HashTreeRootWith ==
    <<Leaf("Index"), Leaf("Blob"), Leaf("KzgCommitment"), Leaf("KzgProof"),
      LeafObj("BeaconBlockHeader", BeaconBlockHeader), LeafVec("InclusionProof", 8)>>

BlobSidecar == Container(BlobSidecar_MarshalSSZTo, BlobSidecar_UnmarshalSSZ,
    BlobSidecar_SizeSSZ, BlobSidecar_HashTreeRootWith)

BlobSidecars_MarshalSSZTo == [offset |-> 4, writes |->
    <<LastOff("Sidecars"), PutList("Sidecars", FixedSize(BlobSidecar), 6)>>]

BlobSidecars_UnmarshalSSZ == [size |-> 4, exact |-> FALSE, reads |->
    <<GetOff("Sidecars", 0, 4, 4), TailList("Sidecars", 131544, 6)>>]

BlobSidecars_SizeSSZ == [base |-> 4, parts |-> <<Off("Sidecars", 131544)>>]

BlobSidecars_HashTreeRootOfSixteen ==
    <<LeafList("Sidecars", 32, 16, 16)>>
BlobSidecars_HashTreeRootWith ==
    <<LeafList("Sidecars", 32, 6, 6)>>

BlobSidecars == Container(BlobSidecars_MarshalSSZTo, BlobSidecars_UnmarshalSSZ,
    BlobSidecars_SizeSSZ, BlobSidecars_HashTreeRootWith)

ValidatorsMarshaling_MarshalSSZTo == [offset |-> 4, writes |->
    <<LastOff("Validators"), PutList("Validators", FixedSize(Validator), NoLimit)>>]

ValidatorsMarshaling_UnmarshalSSZ == [size |-> 4, exact |-> FALSE, reads |->
    <<GetOff("Validators", 0, 4, 4), TailList("Validators", 121, NoLimit)>>]

ValidatorsMarshaling_SizeSSZ == [base |-> 4, parts |-> <<Off("Validators", 121)>>]

ValidatorsMarshaling_HashTreeRootWith ==
    <<LeafList("Validators", 32, NoLimit, NoLimit)>>

ValidatorsMarshaling == Container(ValidatorsMarshaling_MarshalSSZTo, ValidatorsMarshaling_UnmarshalSSZ,
    ValidatorsMarshaling_SizeSSZ, ValidatorsMarshaling_HashTreeRootWith)

ExecutionPayloadHeaderDeneb_MarshalSSZTo == [offset |-> 584, writes |->
    <<Put("ParentHash", 32), Put("FeeRecipient", 20), Put("StateRoot", 32),
      Put("ReceiptsRoot", 32), PutSlice("LogsBloom", 256), Put("Random", 32), Put("Number", 8),
      Put("GasLimit", 8), Put("GasUsed", 8), Put("Timestamp", 8), LastOff("ExtraData"),
      Put("BaseFeePerGas", 32), Put("BlockHash", 32), Put("TransactionsRoot", 32),
      Put("WithdrawalsRoot", 32), Put("BlobGasUsed", 8), Put("ExcessBlobGas", 8),
      PutList("ExtraData", 1, 32)>>]

ExecutionPayloadHeaderDeneb_UnmarshalSSZ == [size |-> 584, exact |-> FALSE, reads |->
    <<Get("ParentHash", 0, 32), Get("FeeRecipient", 32, 52), Get("StateRoot", 52, 84),
      Get("ReceiptsRoot", 84, 116), GetSlice("LogsBloom", 116, 372), Get("Random", 372, 404),
      Get("Number", 404, 412), Get("GasLimit", 412, 420), Get("GasUsed", 420, 428),
      Get("Timestamp", 428, 436), GetOff("ExtraData", 436, 440, 584),
      Get("BaseFeePerGas", 440, 472), Get("BlockHash", 472, 504),
      Get("TransactionsRoot", 504, 536), Get("WithdrawalsRoot", 536, 568),
      Get("BlobGasUsed", 568, 576), Get("ExcessBlobGas", 576, 584), TailList("ExtraData", 1, 32)>>]

ExecutionPayloadHeaderDeneb_SizeSSZ == [base |-> 584, parts |-> <<Off("ExtraData", 1)>>]

ExecutionPayloadHeaderDeneb_HashTreeRootWith ==
    <<Leaf("ParentHash"), Leaf("FeeRecipient"), Leaf("StateRoot"), Leaf("ReceiptsRoot"),
      LeafSlice("LogsBloom", 256), Leaf("Random"), Leaf("Number"), Leaf("GasLimit"),
      Leaf("GasUsed"), Leaf("Timestamp"), LeafList("ExtraData", 1, 32, 1), Leaf("BaseFeePerGas"),
      Leaf("BlockHash"), Leaf("TransactionsRoot"), Leaf("WithdrawalsRoot"), Leaf("BlobGasUsed"),
      Leaf("ExcessBlobGas")>>

ExecutionPayloadHeaderDeneb == Container(ExecutionPayloadHeaderDeneb_MarshalSSZTo, ExecutionPayloadHeaderDeneb_UnmarshalSSZ,
    ExecutionPayloadHeaderDeneb_SizeSSZ, ExecutionPayloadHeaderDeneb_HashTreeRootWith)

ExecutableDataDeneb_MarshalSSZTo == [offset |-> 528, writes |->
    <<Put("ParentHash", 32), Put("FeeRecipient", 20), Put("StateRoot", 32),
      Put("ReceiptsRoot", 32), PutSlice("LogsBloom", 256), Put("Random", 32), Put("Number", 8),
      Put("GasLimit", 8), Put("GasUsed", 8), Put("Timestamp", 8), Off("ExtraData", 1),
      Put("BaseFeePerGas", 32), Put("BlockHash", 32), OffDyn("Transactions"),
      LastOff("Withdrawals"), Put("BlobGasUsed", 8), Put("ExcessBlobGas", 8),
      PutList("ExtraData", 1, 32), PutDyn("Transactions", 1048576, 1073741824),
      PutList("Withdrawals", FixedSize(Withdrawal), 16)>>]

ExecutableDataDeneb_UnmarshalSSZ == [size |-> 528, exact |-> FALSE, reads |->
    <<Get("ParentHash", 0, 32), Get("FeeRecipient", 32, 52), Get("StateRoot", 52, 84),
      Get("ReceiptsRoot", 84, 116), GetSlice("LogsBloom", 116, 372), Get("Random", 372, 404),
      Get("Number", 404, 412), Get("GasLimit", 412, 420), Get("GasUsed", 420, 428),
      Get("Timestamp", 428, 436), GetOff("ExtraData", 436, 440, 528),
      Get("BaseFeePerGas", 440, 472), Get("BlockHash", 472, 504),
      GetOff("Transactions", 504, 508, 0), GetOff("Withdrawals", 508, 512, 0),
      Get("BlobGasUsed", 512, 520), Get("ExcessBlobGas", 520, 528), TailList("ExtraData", 1, 32),
      TailDyn("Transactions", 1048576, 1073741824), TailList("Withdrawals", 44, 16)>>]

ExecutableDataDeneb_SizeSSZ == [base |-> 528, parts |-> <<Off("ExtraData", 1), OffDyn("Transactions"), Off("Withdrawals", 44)>>]

ExecutableDataDeneb_HashTreeRootWith ==
    <<Leaf("ParentHash"), Leaf("FeeRecipient"), Leaf("StateRoot"), Leaf("ReceiptsRoot"),
      LeafSlice("LogsBloom", 256), Leaf("Random"), Leaf("Number"), Leaf("GasLimit"),
      Leaf("GasUsed"), Leaf("Timestamp"), LeafList("ExtraData", 1, 32, 1), Leaf("BaseFeePerGas"),
      Leaf("BlockHash"), LeafDyn("Transactions", 1048576, 1073741824, 33554432),
      LeafList("Withdrawals", 32, 16, 16), Leaf("BlobGasUsed"), Leaf("ExcessBlobGas")>>

ExecutableDataDeneb == Container(ExecutableDataDeneb_MarshalSSZTo, ExecutableDataDeneb_UnmarshalSSZ,
    ExecutableDataDeneb_SizeSSZ, ExecutableDataDeneb_HashTreeRootWith)

BeaconBlockBodyDeneb_MarshalSSZTo == [offset |-> 212, writes |->
    <<Put("RandaoReveal", 96), PutObj("Eth1Data", Eth1Data), Put("Graffiti", 32),
      Off("Deposits", 192), OffObj("ExecutionPayload", ExecutableDataDeneb),
      LastOff("BlobKzgCommitments"), PutList("Deposits", FixedSize(Deposit), 16),
      PutObj("ExecutionPayload", ExecutableDataDeneb), PutList("BlobKzgCommitments", 48, 16)>>]

BeaconBlockBodyDeneb_UnmarshalSSZ == [size |-> 212, exact |-> FALSE, reads |->
    <<Get("RandaoReveal", 0, 96), GetObj("Eth1Data", 96, 168, Eth1Data),
      Get("Graffiti", 168, 200), GetOff("Deposits", 200, 204, 212),
      GetOff("ExecutionPayload", 204, 208, 0), GetOff("BlobKzgCommitments", 208, 212, 0),
      TailList("Deposits", 192, 16), TailObj("ExecutionPayload", ExecutableDataDeneb),
      TailList("BlobKzgCommitments", 48, 16)>>]

BeaconBlockBodyDeneb_SizeSSZ == [base |-> 212, parts |-> <<Off("Deposits", 192), OffObj("ExecutionPayload", ExecutableDataDeneb),
      Off("BlobKzgCommitments", 48)>>]

BeaconBlockBodyDeneb_HashTreeRootWith ==
    <<Leaf("RandaoReveal"), LeafObj("Eth1Data", Eth1Data), Leaf("Graffiti"),
      LeafList("Deposits", 32, 16, 16), LeafObj("ExecutionPayload", ExecutableDataDeneb),
      LeafList("BlobKzgCommitments", 32, 16, 16)>>

BeaconBlockBodyDeneb == Container(BeaconBlockBodyDeneb_MarshalSSZTo, BeaconBlockBodyDeneb_UnmarshalSSZ,
    BeaconBlockBodyDeneb_SizeSSZ, BeaconBlockBodyDeneb_HashTreeRootWith)

BeaconBlockDeneb_MarshalSSZTo == [offset |-> 84, writes |->
    <<Put("Slot", 8), Put("ProposerIndex", 8), Put("ParentBlockRoot", 32), Put("StateRoot", 32),
      LastOff("Body"), PutObj("Body", BeaconBlockBodyDeneb)>>]

BeaconBlockDeneb_UnmarshalSSZ == [size |-> 84, exact |-> FALSE, reads |->
    <<Get("Slot", 0, 8), Get("ProposerIndex", 8, 16), Get("ParentBlockRoot", 16, 48),
      Get("StateRoot", 48, 80), GetOff("Body", 80, 84, 84), TailObj("Body", BeaconBlockBodyDeneb)>>]

BeaconBlockDeneb_SizeSSZ == [base |-> 84, parts |-> <<OffObj("Body", BeaconBlockBodyDeneb)>>]

BeaconBlockDeneb_HashTreeRootWith ==
    <<Leaf("Slot"), Leaf("ProposerIndex"), Leaf("ParentBlockRoot"), Leaf("StateRoot"),
      LeafObj("Body", BeaconBlockBodyDeneb)>>

BeaconBlockDeneb == Container(BeaconBlockDeneb_MarshalSSZTo, BeaconBlockDeneb_UnmarshalSSZ,
    BeaconBlockDeneb_SizeSSZ, BeaconBlockDeneb_HashTreeRootWith)

BeaconState_MarshalSSZTo == [offset |-> 300, writes |->
    <<Put("GenesisValidatorsRoot", 32), Put("Slot", 8), PutObj("Fork", Fork),
      PutObj("LatestBlockHeader", BeaconBlockHeader), Off("BlockRoots", 32),
      Off("StateRoots", 32), PutObj("Eth1Data", Eth1Data), Put("Eth1DepositIndex", 8),
      OffObj("LatestExecutionPayloadHeader", ExecutionPayloadHeaderDeneb), Off("Validators", 121),
      Off("Balances", 8), Off("RandaoMixes", 32), Put("NextWithdrawalIndex", 8),
      Put("NextWithdrawalValidatorIndex", 8), LastOff("Slashings"), Put("TotalSlashing", 8),
      PutList("BlockRoots", 32, 8192), PutList("StateRoots", 32, 8192),
      PutObj("LatestExecutionPayloadHeader", ExecutionPayloadHeaderDeneb),
      PutList("Validators", FixedSize(Validator), NoLimit), PutList("Balances", 8, NoLimit),
      PutList("RandaoMixes", 32, 65536), PutList("Slashings", 8, NoLimit)>>]

BeaconState_UnmarshalSSZ == [size |-> 300, exact |-> FALSE, reads |->
    <<Get("GenesisValidatorsRoot", 0, 32), Get("Slot", 32, 40), GetObj("Fork", 40, 56, Fork),
      GetObj("LatestBlockHeader", 56, 168, BeaconBlockHeader),
      GetOff("BlockRoots", 168, 172, 300), GetOff("StateRoots", 172, 176, 0),
      GetObj("Eth1Data", 176, 248, Eth1Data), Get("Eth1DepositIndex", 248, 256),
      GetOff("LatestExecutionPayloadHeader", 256, 260, 0), GetOff("Validators", 260, 264, 0),
      GetOff("Balances", 264, 268, 0), GetOff("RandaoMixes", 268, 272, 0),
      Get("NextWithdrawalIndex", 272, 280), Get("NextWithdrawalValidatorIndex", 280, 288),
      GetOff("Slashings", 288, 292, 0), Get("TotalSlashing", 292, 300),
      TailList("BlockRoots", 32, 8192), TailList("StateRoots", 32, 8192),
      TailObj("LatestExecutionPayloadHeader", ExecutionPayloadHeaderDeneb),
      TailList("Validators", 121, NoLimit), TailList("Balances", 8, NoLimit),
      TailList("RandaoMixes", 32, 65536), TailList("Slashings", 8, NoLimit)>>]

BeaconState_SizeSSZ == [base |-> 300, parts |-> <<Off("BlockRoots", 32), Off("StateRoots", 32),
      OffObj("LatestExecutionPayloadHeader", ExecutionPayloadHeaderDeneb), Off("Validators", 121),
      Off("Balances", 8), Off("RandaoMixes", 32), Off("Slashings", 8)>>]

BeaconState_HashTreeRootWith ==
    <<Leaf("GenesisValidatorsRoot"), Leaf("Slot"), LeafObj("Fork", Fork),
      LeafObj("LatestBlockHeader", BeaconBlockHeader), LeafList("BlockRoots", 32, 8192, 8192),
      LeafList("StateRoots", 32, 8192, 8192), LeafObj("Eth1Data", Eth1Data),
      Leaf("Eth1DepositIndex"),
      LeafObj("LatestExecutionPayloadHeader", ExecutionPayloadHeaderDeneb),
      LeafList("Validators", 32, NoLimit, NoLimit), LeafList("Balances", 8, NoLimit, NoLimit),
      LeafList("RandaoMixes", 32, 65536, 65536), Leaf("NextWithdrawalIndex"),
      Leaf("NextWithdrawalValidatorIndex"), LeafList("Slashings", 8, NoLimit, NoLimit),
      Leaf("TotalSlashing")>>

BeaconState == Container(BeaconState_MarshalSSZTo, BeaconState_UnmarshalSSZ,
    BeaconState_SizeSSZ, BeaconState_HashTreeRootWith)
=============================================================================
