--------------------------- MODULE SSZBellatrix ---------------------------
(***************************************************************************)
(* The tables of the generated codecs of the Bellatrix containers that the *)
(* second serializer (ssz/v2) is compared with.  See SSZCodec for the      *)
(* notation.                                                               *)
(***************************************************************************)
EXTENDS SSZCodec

BeaconBlockHeader_MarshalSSZTo == [offset |-> 0, writes |->
    <<Put("Slot", 8), Put("ProposerIndex", 8), PutSlice("ParentRoot", 32),
      PutSlice("StateRoot", 32), PutSlice("BodyRoot", 32)>>]

BeaconBlockHeader_UnmarshalSSZ == [size |-> 112, exact |-> TRUE, reads |->
    <<Get("Slot", 0, 8), Get("ProposerIndex", 8, 16), GetSlice("ParentRoot", 16, 48),
      GetSlice("StateRoot", 48, 80), GetSlice("BodyRoot", 80, 112)>>]

BeaconBlockHeader_SizeSSZ == [base |-> 112, parts |-> <<>>]

BeaconBlockHeader_HashTreeRootWith ==
    <<Leaf("Slot"), Leaf("ProposerIndex"), LeafSlice("ParentRoot", 32),
      LeafSlice("StateRoot", 32), LeafSlice("BodyRoot", 32)>>

BeaconBlockHeader == Container(BeaconBlockHeader_MarshalSSZTo, BeaconBlockHeader_UnmarshalSSZ,
    BeaconBlockHeader_SizeSSZ, BeaconBlockHeader_HashTreeRootWith)

Checkpoint_MarshalSSZTo == [offset |-> 0, writes |->
    <<Put("Epoch", 8), PutSlice("Root", 32)>>]

Checkpoint_UnmarshalSSZ == [size |-> 40, exact |-> TRUE, reads |->
    <<Get("Epoch", 0, 8), GetSlice("Root", 8, 40)>>]

Checkpoint_SizeSSZ == [base |-> 40, parts |-> <<>>]

Checkpoint_HashTreeRootWith ==
    <<Leaf("Epoch"), LeafSlice("Root", 32)>>

Checkpoint == Container(Checkpoint_MarshalSSZTo, Checkpoint_UnmarshalSSZ,
    Checkpoint_SizeSSZ, Checkpoint_HashTreeRootWith)

Fork_MarshalSSZTo == [offset |-> 0, writes |->
    <<PutSlice("PreviousVersion", 4), PutSlice("CurrentVersion", 4), Put("Epoch", 8)>>]

Fork_UnmarshalSSZ == [size |-> 16, exact |-> TRUE, reads |->
    <<GetSlice("PreviousVersion", 0, 4), GetSlice("CurrentVersion", 4, 8), Get("Epoch", 8, 16)>>]

Fork_SizeSSZ == [base |-> 16, parts |-> <<>>]

Fork_HashTreeRootWith ==
    <<LeafSlice("PreviousVersion", 4), LeafSlice("CurrentVersion", 4), Leaf("Epoch")>>

Fork == Container(Fork_MarshalSSZTo, Fork_UnmarshalSSZ,
    Fork_SizeSSZ, Fork_HashTreeRootWith)

Validator_MarshalSSZTo == [offset |-> 0, writes |->
    <<PutSlice("Pubkey", 48), PutSlice("WithdrawalCredentials", 32), Put("EffectiveBalance", 8),
      Put("Slashed", 1), Put("ActivationEligibilityEpoch", 8), Put("ActivationEpoch", 8),
      Put("ExitEpoch", 8), Put("WithdrawableEpoch", 8)>>]

Validator_UnmarshalSSZ == [size |-> 121, exact |-> TRUE, reads |->
    <<GetSlice("Pubkey", 0, 48), GetSlice("WithdrawalCredentials", 48, 80),
      Get("EffectiveBalance", 80, 88), Get("Slashed", 88, 89),
      Get("ActivationEligibilityEpoch", 89, 97), Get("ActivationEpoch", 97, 105),
      Get("ExitEpoch", 105, 113), Get("WithdrawableEpoch", 113, 121)>>]

Validator_SizeSSZ == [base |-> 121, parts |-> <<>>]

Validator_HashTreeRootWith ==
    <<LeafSlice("Pubkey", 48), LeafSlice("WithdrawalCredentials", 32), Leaf("EffectiveBalance"),
      Leaf("Slashed"), Leaf("ActivationEligibilityEpoch"), Leaf("ActivationEpoch"),
      Leaf("ExitEpoch"), Leaf("WithdrawableEpoch")>>

Validator == Container(Validator_MarshalSSZTo, Validator_UnmarshalSSZ,
    Validator_SizeSSZ, Validator_HashTreeRootWith)

SyncCommittee_MarshalSSZTo == [offset |-> 0, writes |->
    <<PutVec("PubKeys", 512, 48), Put("AggregatePubKey", 48)>>]

SyncCommittee_UnmarshalSSZ == [size |-> 24624, exact |-> TRUE, reads |->
    <<GetVec("PubKeys", 0, 24576, 512, 48), Get("AggregatePubKey", 24576, 24624)>>]

SyncCommittee_SizeSSZ == [base |-> 24624, parts |-> <<>>]

SyncCommittee_HashTreeRootWith ==
    <<LeafVec("PubKeys", 512), Leaf("AggregatePubKey")>>

SyncCommittee == Container(SyncCommittee_MarshalSSZTo, SyncCommittee_UnmarshalSSZ,
    SyncCommittee_SizeSSZ, SyncCommittee_HashTreeRootWith)

Eth1Data_MarshalSSZTo == [offset |-> 0, writes |->
    <<PutSlice("DepositRoot", 32), Put("DepositCount", 8), PutSlice("BlockHash", 32)>>]

Eth1Data_UnmarshalSSZ == [size |-> 72, exact |-> TRUE, reads |->
    <<GetSlice("DepositRoot", 0, 32), Get("DepositCount", 32, 40), GetSlice("BlockHash", 40, 72)>>]

Eth1Data_SizeSSZ == [base |-> 72, parts |-> <<>>]

Eth1Data_HashTreeRootWith ==
    <<LeafSlice("DepositRoot", 32), Leaf("DepositCount"), LeafSlice("BlockHash", 32)>>

Eth1Data == Container(Eth1Data_MarshalSSZTo, Eth1Data_UnmarshalSSZ,
    Eth1Data_SizeSSZ, Eth1Data_HashTreeRootWith)

ExecutionPayloadHeader_MarshalSSZTo == [offset |-> 536, writes |->
    <<PutSlice("ParentHash", 32), PutSlice("FeeRecipient", 20), PutSlice("StateRoot", 32),
      PutSlice("ReceiptsRoot", 32), PutSlice("LogsBloom", 256), PutSlice("PrevRandao", 32),
      Put("BlockNumber", 8), Put("GasLimit", 8), Put("GasUsed", 8), Put("Timestamp", 8),
      LastOff("ExtraData"), PutSlice("BaseFeePerGas", 32), PutSlice("BlockHash", 32),
      PutSlice("TransactionsRoot", 32), PutList("ExtraData", 1, 32)>>]

ExecutionPayloadHeader_UnmarshalSSZ == [size |-> 536, exact |-> FALSE, reads |->
    <<GetSlice("ParentHash", 0, 32), GetSlice("FeeRecipient", 32, 52),
      GetSlice("StateRoot", 52, 84), GetSlice("ReceiptsRoot", 84, 116),
      GetSlice("LogsBloom", 116, 372), GetSlice("PrevRandao", 372, 404),
      Get("BlockNumber", 404, 412), Get("GasLimit", 412, 420), Get("GasUsed", 420, 428),
      Get("Timestamp", 428, 436), GetOff("ExtraData", 436, 440, 536),
      GetSlice("BaseFeePerGas", 440, 472), GetSlice("BlockHash", 472, 504),
      GetSlice("TransactionsRoot", 504, 536), TailList("ExtraData", 1, 32)>>]

ExecutionPayloadHeader_SizeSSZ == [base |-> 536, parts |-> <<Off("ExtraData", 1)>>]

ExecutionPayloadHeader_HashTreeRootWith ==
    <<LeafSlice("ParentHash", 32), LeafSlice("FeeRecipient", 20), LeafSlice("StateRoot", 32),
      LeafSlice("ReceiptsRoot", 32), LeafSlice("LogsBloom", 256), LeafSlice("PrevRandao", 32),
      Leaf("BlockNumber"), Leaf("GasLimit"), Leaf("GasUsed"), Leaf("Timestamp"),
      LeafList("ExtraData", 1, 32, 1), LeafSlice("BaseFeePerGas", 32), LeafSlice("BlockHash", 32),
      LeafSlice("TransactionsRoot", 32)>>

ExecutionPayloadHeader == Container(ExecutionPayloadHeader_MarshalSSZTo,
    ExecutionPayloadHeader_UnmarshalSSZ,
    ExecutionPayloadHeader_SizeSSZ, ExecutionPayloadHeader_HashTreeRootWith)

BeaconStateBellatrix_MarshalHead ==
    <<Put("GenesisTime", 8), PutSlice("GenesisValidatorsRoot", 32), Put("Slot", 8),
      PutObj("Fork", Fork), PutObj("LatestBlockHeader", BeaconBlockHeader),
      PutVec("BlockRoots", 8192, 32), PutVec("StateRoots", 8192, 32), Off("HistoricalRoots", 32),
      PutObj("Eth1Data", Eth1Data), Off("Eth1DataVotes", 72), Put("Eth1DepositIndex", 8),
      Off("Validators", 121), Off("Balances", 8), PutVec("RandaoMixes", 65536, 32),
      PutVec("Slashings", 8192, 8), Off("PreviousEpochParticipation", 1)>>

BeaconStateBellatrix_MarshalRest ==
    <<Off("CurrentEpochParticipation", 1), PutSlice("JustificationBits", 1),
      PutObj("PreviousJustifiedCheckpoint", Checkpoint),
      PutObj("CurrentJustifiedCheckpoint", Checkpoint), PutObj("FinalizedCheckpoint", Checkpoint),
      Off("InactivityScores", 8), PutObj("CurrentSyncCommittee", SyncCommittee),
      PutObj("NextSyncCommittee", SyncCommittee), LastOff("LatestExecutionPayloadHeader"),
      PutList("HistoricalRoots", 32, 16777216),
      PutList("Eth1DataVotes", FixedSize(Eth1Data), 2048),
      PutList("Validators", FixedSize(Validator), NoLimit), PutList("Balances", 8, NoLimit),
      PutList("PreviousEpochParticipation", 1, NoLimit),
      PutList("CurrentEpochParticipation", 1, NoLimit), PutList("InactivityScores", 8, NoLimit),
      PutObj("LatestExecutionPayloadHeader", ExecutionPayloadHeader)>>

BeaconStateBellatrix_UnmarshalHead ==
    <<Get("GenesisTime", 0, 8), GetSlice("GenesisValidatorsRoot", 8, 40), Get("Slot", 40, 48),
      GetObj("Fork", 48, 64, Fork), GetObj("LatestBlockHeader", 64, 176, BeaconBlockHeader),
      GetVec("BlockRoots", 176, 262320, 8192, 32), GetVec("StateRoots", 262320, 524464, 8192, 32),
      GetOff("HistoricalRoots", 524464, 524468, 2736633),
      GetObj("Eth1Data", 524468, 524540, Eth1Data), GetOff("Eth1DataVotes", 524540, 524544, 0),
      Get("Eth1DepositIndex", 524544, 524552), GetOff("Validators", 524552, 524556, 0),
      GetOff("Balances", 524556, 524560, 0), GetVec("RandaoMixes", 524560, 2621712, 65536, 32),
      GetVec("Slashings", 2621712, 2687248, 8192, 8),
      GetOff("PreviousEpochParticipation", 2687248, 2687252, 0)>>

BeaconStateBellatrix_UnmarshalRest ==
    <<GetOff("CurrentEpochParticipation", 2687252, 2687256, 0),
      GetSlice("JustificationBits", 2687256, 2687257),
      GetObj("PreviousJustifiedCheckpoint", 2687257, 2687297, Checkpoint),
      GetObj("CurrentJustifiedCheckpoint", 2687297, 2687337, Checkpoint),
      GetObj("FinalizedCheckpoint", 2687337, 2687377, Checkpoint),
      GetOff("InactivityScores", 2687377, 2687381, 0),
      GetObj("CurrentSyncCommittee", 2687381, 2712005, SyncCommittee),
      GetObj("NextSyncCommittee", 2712005, 2736629, SyncCommittee),
      GetOff("LatestExecutionPayloadHeader", 2736629, 2736633, 0),
      TailList("HistoricalRoots", 32, 16777216), TailList("Eth1DataVotes", 72, 2048),
      TailList("Validators", 121, NoLimit), TailList("Balances", 8, NoLimit),
      TailList("PreviousEpochParticipation", 1, NoLimit),
      TailList("CurrentEpochParticipation", 1, NoLimit), TailList("InactivityScores", 8, NoLimit),
      TailObj("LatestExecutionPayloadHeader", ExecutionPayloadHeader)>>

BeaconStateBellatrix_HashHead ==
    <<Leaf("GenesisTime"), LeafSlice("GenesisValidatorsRoot", 32), Leaf("Slot"),
      LeafObj("Fork", Fork), LeafObj("LatestBlockHeader", BeaconBlockHeader),
      LeafVec("BlockRoots", 8192), LeafVec("StateRoots", 8192),
      LeafList("HistoricalRoots", 32, 16777216, 16777216), LeafObj("Eth1Data", Eth1Data),
      LeafList("Eth1DataVotes", 32, 2048, 2048), Leaf("Eth1DepositIndex"),
      LeafList("Validators", 32, NoLimit, NoLimit)>>

BeaconStateBellatrix_HashRest ==
    <<LeafList("Balances", 8, NoLimit, NoLimit), LeafVec("RandaoMixes", 65536),
      LeafVec("Slashings", 8192), LeafList("PreviousEpochParticipation", 1, NoLimit, NoLimit),
      LeafList("CurrentEpochParticipation", 1, NoLimit, NoLimit),
      LeafSlice("JustificationBits", 1), LeafObj("PreviousJustifiedCheckpoint", Checkpoint),
      LeafObj("CurrentJustifiedCheckpoint", Checkpoint),
      LeafObj("FinalizedCheckpoint", Checkpoint),
      LeafList("InactivityScores", 8, NoLimit, NoLimit),
      LeafObj("CurrentSyncCommittee", SyncCommittee), LeafObj("NextSyncCommittee", SyncCommittee),
      LeafObj("LatestExecutionPayloadHeader", ExecutionPayloadHeader)>>

BeaconStateBellatrix_SizeSSZ == [base |-> 2736633, parts |->
    <<Off("HistoricalRoots", 32), Off("Eth1DataVotes", 72), Off("Validators", 121),
      Off("Balances", 8), Off("PreviousEpochParticipation", 1),
      Off("CurrentEpochParticipation", 1), Off("InactivityScores", 8),
      OffObj("LatestExecutionPayloadHeader", ExecutionPayloadHeader)>>]

BeaconStateBellatrix ==
    [marshal |-> [offset |-> 2736633,
                  writes |-> BeaconStateBellatrix_MarshalHead \o BeaconStateBellatrix_MarshalRest],
     unmarshal |-> [size |-> 2736633, exact |-> FALSE,
                    reads |-> BeaconStateBellatrix_UnmarshalHead \o BeaconStateBellatrix_UnmarshalRest],
     size |-> BeaconStateBellatrix_SizeSSZ,
     hash |-> BeaconStateBellatrix_HashHead \o BeaconStateBellatrix_HashRest]
=============================================================================
