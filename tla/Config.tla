------------------------------- MODULE Config -------------------------------
(***************************************************************************)
(* The configuration of a node (config.go): what New starts from, what the *)
(* options add, what checkConfig accepts, and the callbacks that the       *)
(* handlers of context.go, dbft.go, check.go and send.go call without      *)
(* asking whether they are there.  A configuration is the set of its       *)
(* fields that are not nil together with the height that enables the       *)
(* anti-MEV extension.                                                     *)
(***************************************************************************)
EXTENDS Integers, TLAPS

\* Fields that must come from the client, always or with the extension only,
\* and the two of the dynamic block time.
MustBeGiven ==
    {"GetKeyPair", "Timer", "CurrentHeight", "CurrentBlockHash", "GetValidators",
     "NewBlockFromContext", "NewConsensusPayload", "NewPrepareRequest",
     "NewPrepareResponse", "NewChangeView", "NewCommit", "NewRecoveryRequest",
     "NewRecoveryMessage"}

AntiMEVFields == {"NewPreBlockFromContext", "ProcessPreBlock", "NewPreCommit"}

DynamicFields == {"MaxTimePerBlock", "SubscribeForTxs"}

\* The fields defaultConfig fills.
Defaults ==
    {"Logger", "TimePerBlock", "RequestTx", "StopTxFlow", "GetTx", "GetVerified",
     "VerifyPreBlock", "VerifyBlock", "Broadcast", "ProcessBlock", "GetBlock",
     "WatchOnly", "VerifyPrepareRequest", "VerifyPrepareResponse",
     "VerifyPreCommit", "VerifyCommit"}

Fields == MustBeGiven \cup AntiMEVFields \cup DynamicFields \cup Defaults

defaultConfig == [fields |-> Defaults, enablingHeight |-> -1]

\* Every option WithX sets the field X; none is given a nil function.
With(cfg, given, h) == [fields |-> cfg.fields \cup given, enablingHeight |-> h]

\* New with options for the fields of `given` and with an enabling height.
New(given, h) == With(defaultConfig, given, h)

checkConfig(cfg) ==
    /\ MustBeGiven \subseteq cfg.fields
    /\ IF cfg.enablingHeight >= 0
       THEN AntiMEVFields \subseteq cfg.fields
       ELSE AntiMEVFields \cap cfg.fields = {}
    /\ "MaxTimePerBlock" \in cfg.fields <=> "SubscribeForTxs" \in cfg.fields

-----------------------------------------------------------------------------
(* What is called, and when.                                                *)

\* uint32 keeps the low bits of the enabling height.
isAntiMEVExtensionEnabled(cfg, blockIndex) ==
    /\ cfg.enablingHeight >= 0
    /\ cfg.enablingHeight % 4294967296 <= blockIndex

\* reset, and the constructors and checks of the messages of dBFT 2.0.
CalledAlways ==
    {"GetKeyPair", "CurrentHeight", "CurrentBlockHash", "GetValidators", "TimePerBlock",
     "WatchOnly", "Timer", "Logger", "StopTxFlow", "RequestTx", "GetTx", "GetVerified",
     "Broadcast", "NewConsensusPayload", "NewPrepareRequest", "NewPrepareResponse",
     "NewChangeView", "NewCommit", "NewRecoveryRequest", "NewRecoveryMessage",
     "NewBlockFromContext", "VerifyBlock", "ProcessBlock",
     "VerifyPrepareRequest", "VerifyPrepareResponse", "VerifyCommit"}

\* createAndCheckBlock, onPreCommit, makePreCommit and checkPreCommit.
CalledWithAntiMEV ==
    {"VerifyPreBlock", "VerifyPreCommit", "NewPreBlockFromContext", "NewPreCommit",
     "ProcessPreBlock"}

\* Fill fails, and subscribeForTransactions follows, only with a maximum time.
Called(cfg, blockIndex) ==
    CalledAlways
        \cup (IF isAntiMEVExtensionEnabled(cfg, blockIndex) THEN CalledWithAntiMEV ELSE {})
        \cup (IF "MaxTimePerBlock" \in cfg.fields THEN {"SubscribeForTxs"} ELSE {})

-----------------------------------------------------------------------------

\* Whatever options a node is made with: when checkConfig accepts them, no
\* handler at any height calls a function that is nil (checkConfig, New).
THEOREM AcceptedConfigIsComplete ==
    ASSUME NEW given \in SUBSET Fields, NEW h \in Int, NEW blockIndex \in Nat,
           checkConfig(New(given, h))
    PROVE  Called(New(given, h), blockIndex) \subseteq New(given, h).fields
<1> DEFINE cfg == New(given, h)
<1>1. CalledAlways \subseteq cfg.fields
  BY DEF CalledAlways, New, With, checkConfig, MustBeGiven, Defaults, defaultConfig
<1>2. isAntiMEVExtensionEnabled(cfg, blockIndex) => CalledWithAntiMEV \subseteq cfg.fields
  BY DEF isAntiMEVExtensionEnabled, CalledWithAntiMEV, New, With, checkConfig, AntiMEVFields,
         Defaults, defaultConfig
<1>3. "MaxTimePerBlock" \in cfg.fields => "SubscribeForTxs" \in cfg.fields
  BY DEF checkConfig
<1> QED
  BY <1>1, <1>2, <1>3 DEF Called

\* Nothing less would do: a configuration that checkConfig refuses, and that
\* brings no field for an extension it leaves off, lacks a function that the
\* handlers call at some height (checkConfig).
THEOREM RefusedConfigIsIncomplete ==
    ASSUME NEW given \in SUBSET Fields, NEW h \in Int,
           ~checkConfig(New(given, h)),
           h < 0 => AntiMEVFields \cap given = {},
           "SubscribeForTxs" \in given => "MaxTimePerBlock" \in given
    PROVE  \E blockIndex \in Nat :
                ~(Called(New(given, h), blockIndex) \subseteq New(given, h).fields)
<1> DEFINE cfg == New(given, h)
<1>1. cfg.fields = Defaults \cup given /\ cfg.enablingHeight = h
  BY DEF New, With, defaultConfig
<1>2. CASE ~(MustBeGiven \subseteq cfg.fields)
  <2>1. MustBeGiven \subseteq CalledAlways
    BY DEF MustBeGiven, CalledAlways
  <2>2. ~(Called(cfg, 0) \subseteq cfg.fields)
    BY <1>2, <2>1 DEF Called
  <2> QED
    BY <2>2
<1>3. CASE h >= 0 /\ ~(AntiMEVFields \subseteq cfg.fields)
  <2> DEFINE b == h % 4294967296
  <2>1. b \in Nat /\ b <= b
    OBVIOUS
  <2>2. isAntiMEVExtensionEnabled(cfg, b)
    BY <1>1, <1>3, <2>1 DEF isAntiMEVExtensionEnabled
  <2>3. AntiMEVFields \subseteq CalledWithAntiMEV
    BY DEF AntiMEVFields, CalledWithAntiMEV
  <2>4. ~(Called(cfg, b) \subseteq cfg.fields)
    BY <1>3, <2>2, <2>3 DEF Called
  <2> QED
    BY <2>1, <2>4
<1>4. CASE "MaxTimePerBlock" \in cfg.fields /\ "SubscribeForTxs" \notin cfg.fields
  <2>1. ~(Called(cfg, 0) \subseteq cfg.fields)
    BY <1>4 DEF Called
  <2> QED
    BY <2>1
<1>5. h < 0 => AntiMEVFields \cap cfg.fields = {}
  BY <1>1 DEF AntiMEVFields, Defaults
<1>6. "SubscribeForTxs" \in cfg.fields => "MaxTimePerBlock" \in cfg.fields
  BY <1>1 DEF Defaults
<1> QED
  BY <1>1, <1>2, <1>3, <1>4, <1>5, <1>6 DEF checkConfig
=============================================================================
