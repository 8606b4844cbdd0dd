------------------------ MODULE SericaScripts_proofs ------------------------
(***************************************************************************)
(* The collection the scripts run is the collection: whatever they send,   *)
(* wait for, or leave in the pool, they and the buyers together do what    *)
(* SericaNFTCollection allows.  So what is proved of it holds under them.  *)
(***************************************************************************)
EXTENDS SericaScripts, SericaNFTCollection_proofs

SentTx == [tx : Transaction, by : Scripts, at : Nat, status : Status]

\* What a script's clock may read, which is 0 before any has read it.
Clocks ==
    {c \in [reads : Nat, ahead : Skews \cup {0}] :
       \E time \in 0 .. MaxTime : c.reads = time + c.ahead}

\* A listed sale that was set starts after it was sent, and what was sent was sent by now.
InTime(entry) ==
    /\ entry.at <= now
    /\ /\ entry.tx.call = "updateMintGroup"
       /\ entry.status = "success"
       => entry.tx.terms.startTime > entry.at

ScriptsInv ==
    /\ config \in Configs
    /\ now \in 0 .. MaxTime
    /\ clock \in Clocks /\ clock.reads <= now + clock.ahead
    /\ run \in [script : Scripts, result : {"running", "failed", "completed"}]
                 \cup {[script |-> "none", result |-> "none"]}
    /\ sent \in Seq(SentTx)
    /\ \A i \in DOMAIN sent : InTime(sent[i])

LEMMA GroupSends ==
  ASSUME NEW group, ConfigGroup(group), GroupStatement(group).op = "send"
  PROVE  GroupStatement(group).tx \in Transaction
  BY DEF ConfigGroup, GroupStatement, Failure, Send, Transaction

LEMMA CreatorsSend ==
  ASSUME NEW group, ConfigGroup(group), CreatorsStatement(group).op = "send"
  PROVE  CreatorsStatement(group).tx \in Transaction
  BY DEF ConfigGroup, CreatorsStatement, Failure, Nothing, Send, Transaction

LEMMA ClockTerms ==
  ASSUME clock \in Clocks
  PROVE  UpdateMintGroup1 \in Transaction /\ UpdateMintGroup2 \in Transaction
<1>1. PICK time \in 0 .. MaxTime : clock.reads = time + clock.ahead
  BY DEF Clocks
<1>2. clock.ahead \in Skews \cup {0}
  BY DEF Clocks
<1>3. WhitelistTerms(clock.reads) \in GroupTerms /\ PublicTerms(clock.reads) \in GroupTerms
  <2>1. {WhitelistTerms(time + clock.ahead), PublicTerms(time + clock.ahead)} \subseteq GroupTerms
    BY <1>2, ScriptsAssumption
  <2> QED
    BY <1>1, <2>1
<1>4. "public" \in GroupNames /\ "whitelist" \in GroupNames
  BY ScriptsAssumption
<1> QED
  BY <1>3, <1>4 DEF UpdateMintGroup1, UpdateMintGroup2, Transaction

LEMMA ConfigType ==
  ASSUME config \in Configs
  PROVE  /\ Len(config) \in Nat
         /\ DOMAIN config = 1 .. Len(config)
         /\ \A i \in 1 .. Len(config) : ConfigGroup(config[i])
<1>1. config \in Seq(Range(config)) /\ \A i \in DOMAIN config : ConfigGroup(config[i])
  BY ScriptsAssumption
<1> QED
  BY <1>1

\* The statements of the two deployments, one by one.
LEMMA DeployProgram ==
  ASSUME config \in Configs, run.script = "deploy-serica"
  PROVE  /\ Len(config) \in Nat
         /\ Len(Program) = 3 + Len(config) /\ DOMAIN Program = 1 .. 3 + Len(config)
         /\ Program[1] = Send(Deployment) /\ Program[2] = Wait(1)
         /\ Program[3] = FirstCreators
         /\ \A k \in 4 .. 3 + Len(config) : Program[k] = GroupStatement(config[k - 3])
<1> DEFINE head == <<Send(Deployment), Wait(1), FirstCreators>>
           n == Len(config)
<1>1. Program = head \o AddGroups
  BY DEF Program, DeploySerica
<1>2. /\ n \in Nat /\ DOMAIN AddGroups = 1 .. n /\ Len(AddGroups) = n
      /\ \A i \in 1 .. n : AddGroups[i] = GroupStatement(config[i])
  BY ConfigType DEF AddGroups
<1>3. ASSUME NEW k \in 4 .. 3 + n PROVE Program[k] = GroupStatement(config[k - 3])
  <2>1. Program[k] = AddGroups[k - 3] /\ k - 3 \in 1 .. n
    BY <1>1, <1>2
  <2> QED
    BY <1>2, <2>1
<1> QED
  BY <1>1, <1>2

LEMMA OldDeployProgram ==
  ASSUME config \in Configs, run.script = "old_scripts/deploy"
  PROVE  /\ Len(config) \in Nat
         /\ Len(Program) = 2 + 2 * Len(config) /\ DOMAIN Program = 1 .. 2 + 2 * Len(config)
         /\ Program[1] = Send(Deployment) /\ Program[2] = Wait(1)
         /\ \A k \in 3 .. 2 + 2 * Len(config) :
              \/ /\ k % 2 = 1 /\ (k - 1) \div 2 \in 1 .. Len(config)
                 /\ Program[k] = GroupStatement(config[(k - 1) \div 2])
              \/ /\ k % 2 = 0 /\ (k - 2) \div 2 \in 1 .. Len(config)
                 /\ Program[k] = CreatorsStatement(config[(k - 2) \div 2])
<1> DEFINE head == <<Send(Deployment), Wait(1)>>
           n == 2 * Len(config)
           body == [j \in 1 .. n |->
                      IF j % 2 = 1 THEN GroupStatement(config[(j + 1) \div 2])
                      ELSE CreatorsStatement(config[j \div 2])]
<1>1. Program = head \o body
  BY DEF Program, OldDeploy
<1>2. Len(config) \in Nat /\ n \in Nat /\ DOMAIN body = 1 .. n /\ Len(body) = n
  BY ConfigType
<1>3. ASSUME NEW k \in 3 .. 2 + n
      PROVE  \/ /\ k % 2 = 1 /\ (k - 1) \div 2 \in 1 .. Len(config)
                /\ Program[k] = GroupStatement(config[(k - 1) \div 2])
             \/ /\ k % 2 = 0 /\ (k - 2) \div 2 \in 1 .. Len(config)
                /\ Program[k] = CreatorsStatement(config[(k - 2) \div 2])
  <2> DEFINE j == k - 2
  <2>1. Program[k] = body[j] /\ j \in 1 .. n
    BY <1>1, <1>2
  <2>2. /\ j % 2 = 1 => k % 2 = 1 /\ (j + 1) \div 2 = (k - 1) \div 2
        /\ j % 2 = 1 => (k - 1) \div 2 \in 1 .. Len(config)
        /\ j % 2 # 1 => k % 2 = 0 /\ (k - 2) \div 2 \in 1 .. Len(config)
    BY <1>2
  <2>3. CASE j % 2 = 1
    <3>1. body[j] = GroupStatement(config[(j + 1) \div 2])
      BY <2>1, <2>3
    <3> QED
      BY <2>1, <2>2, <2>3, <3>1
  <2>4. CASE j % 2 # 1
    <3>1. body[j] = CreatorsStatement(config[j \div 2])
      BY <2>1, <2>4
    <3> QED
      BY <2>1, <2>2, <2>4, <3>1
  <2> QED
    BY <2>3, <2>4
<1>4. /\ Len(Program) = 2 + n /\ DOMAIN Program = 1 .. 2 + n
      /\ Program[1] = Send(Deployment) /\ Program[2] = Wait(1)
  BY <1>1, <1>2
<1> QED
  BY <1>2, <1>3, <1>4

\* Whatever a script sends is a call the collection has, with arguments it may be given.
LEMMA ProgramSends ==
  ASSUME config \in Configs, clock \in Clocks,
         NEW k \in DOMAIN Program, Program[k].op = "send"
  PROVE  Program[k].tx \in Transaction
<1>0. Send(Deployment).tx \in Transaction /\ Wait(1).op # "send"
  BY DEF Send, Deployment, Transaction, Wait
<1>1. CASE run.script = "deploy-serica"
  <2>1. CASE k = 3
    <3>1. config = <<>> => FirstCreators.op = "throw"
      BY DEF FirstCreators, Failure
    <3>2. config # <<>> => ConfigGroup(config[1])
      BY ConfigType
    <3> QED
      BY <1>1, <2>1, <3>1, <3>2, DeployProgram, CreatorsSend DEF FirstCreators
  <2>2. CASE k \in 4 .. 3 + Len(config)
    BY <1>1, <2>2, ConfigType, DeployProgram, GroupSends
  <2>3. k = 1 \/ k = 2 \/ k = 3 \/ k \in 4 .. 3 + Len(config)
    BY <1>1, DeployProgram
  <2> QED
    BY <1>0, <1>1, <2>1, <2>2, <2>3, DeployProgram
<1>2. CASE run.script = "old_scripts/deploy"
  <2>1. CASE k \in 3 .. 2 + 2 * Len(config)
    BY <1>2, <2>1, ConfigType, OldDeployProgram, GroupSends, CreatorsSend
  <2>2. k = 1 \/ k = 2 \/ k \in 3 .. 2 + 2 * Len(config)
    BY <1>2, OldDeployProgram
  <2> QED
    BY <1>0, <1>2, <2>1, <2>2, OldDeployProgram
<1>3. CASE run.script = "update-mint-group"
  <2>1. Program = UpdateMintGroups
    BY <1>3 DEF Program
  <2>2. k \in 1 .. 9
    BY <2>1 DEF UpdateMintGroups
  <2>3. CASE k = 4
    BY <2>1, <2>3, ClockTerms DEF UpdateMintGroups, Send
  <2>4. CASE k = 5
    BY <2>1, <2>4, ClockTerms DEF UpdateMintGroups, Send
  <2>5. k \in {4, 5}
    BY <2>1, <2>2 DEF UpdateMintGroups, Wait, Read
  <2> QED
    BY <2>3, <2>4, <2>5
<1>4. CASE run.script = "update-base-uri"
  <2>1. Program = UpdateBaseURI
    BY <1>4 DEF Program
  <2>2. k = 1
    BY <2>1 DEF UpdateBaseURI, Wait
  <2> QED
    BY <2>1, <2>2 DEF UpdateBaseURI, Send, Transaction
<1>5. CASE run.script = "upgrade-contracts"
  <2>1. Program = UpgradeContracts
    BY <1>5 DEF Program
  <2> QED
    BY <2>1 DEF UpgradeContracts, Send, Transaction
<1>6. CASE run.script = "old_scripts/upgrade"
  BY <1>6 DEF Program, OldUpgrade, Failure
<1>7. CASE run.script = "test-deployment"
  BY <1>7 DEF Program, TestDeployment
<1>8. CASE run.script \notin Scripts
  BY <1>8 DEF Program, Scripts, DeployScripts, UpkeepScripts
<1> QED
  BY <1>1, <1>2, <1>3, <1>4, <1>5, <1>6, <1>7, <1>8 DEF Scripts, DeployScripts, UpkeepScripts

-----------------------------------------------------------------------------
\* A transaction of the operator is a call of an administrator, or does not touch the
\* collection.
LEMMA PerformIsNext ==
  ASSUME NEW tx \in Transaction, Perform(tx)
  PROVE  [Next]_vars
<1>1. Deployer \in Accounts
  BY SericaAssumption
<1>2. CASE tx.call = "setCreators" /\ SetCreators(Deployer, tx.split)
  <2>1. tx.split \in CreatorSplits
    BY <1>2 DEF Transaction
  <2> QED
    BY <1>1, <1>2, <2>1 DEF Next, AdminCall
<1>3. CASE tx.call = "addMintGroup" /\ AddMintGroup(Deployer, tx.name, tx.terms)
  <2>1. tx.name \in GroupNames /\ tx.terms \in GroupTerms
    BY <1>3 DEF Transaction
  <2> QED
    BY <1>1, <1>3, <2>1 DEF Next, AdminCall
<1>4. CASE tx.call = "updateMintGroup" /\ UpdateMintGroup(Deployer, tx.name, tx.terms)
  <2>1. tx.name \in GroupNames /\ tx.terms \in GroupTerms
    BY <1>4 DEF Transaction
  <2> QED
    BY <1>1, <1>4, <2>1 DEF Next, AdminCall
<1>5. CASE UNCHANGED vars
  BY <1>5, Zenon
<1>6. \/ tx.call = "setCreators" /\ SetCreators(Deployer, tx.split)
      \/ tx.call = "addMintGroup" /\ AddMintGroup(Deployer, tx.name, tx.terms)
      \/ tx.call = "updateMintGroup" /\ UpdateMintGroup(Deployer, tx.name, tx.terms)
      \/ UNCHANGED vars
  <2> DEFINE Silent == \/ UNCHANGED <<vars, tokenBaseURI, implementation>>
                       \/ UNCHANGED <<vars, deployed, implementation>>
                       \/ UNCHANGED <<vars, deployed, tokenBaseURI>>
  <2>1. \/ tx.call = "setCreators" /\ SetCreators(Deployer, tx.split)
        \/ tx.call = "addMintGroup" /\ AddMintGroup(Deployer, tx.name, tx.terms)
        \/ tx.call = "updateMintGroup" /\ UpdateMintGroup(Deployer, tx.name, tx.terms)
        \/ Silent
    BY Zenon DEF Perform
  <2>2. Silent => UNCHANGED vars
    OBVIOUS
  <2> QED
    BY <2>1, <2>2, Zenon
<1> QED
  BY <1>2, <1>3, <1>4, <1>5, <1>6, Zenon

LEMMA SentFields ==
  ASSUME sent \in Seq(SentTx), NEW i \in DOMAIN sent
  PROVE  /\ sent[i] \in SentTx
         /\ sent[i].tx \in Transaction
         /\ sent[i].at \in Nat
<1>1. sent[i] \in SentTx
  OBVIOUS
<1> QED
  BY <1>1 DEF SentTx

LEMMA MineIsNext ==
  ASSUME sent \in Seq(SentTx), Mine
  PROVE  [Next]_vars
<1>1. PICK i \in DOMAIN sent :
        Perform(sent[i].tx) \/ UNCHANGED chainVars
  BY DEF Mine
<1> QED
  <2>1. sent[i].tx \in Transaction
    BY SentFields
  <2>2. CASE Perform(sent[i].tx)
    BY <2>1, <2>2, PerformIsNext, Zenon
  <2>3. CASE UNCHANGED chainVars
    BY <2>3 DEF chainVars
  <2> QED
    BY <1>1, <2>2, <2>3, Zenon

\* Every step of the scripts, the network and the buyers is one of the collection, or none.
LEMMA ScriptsStepIsNext ==
  ASSUME sent \in Seq(SentTx), [ScriptsNext]_svars
  PROVE  [Next]_vars
<1>1. CASE \E script \in Scripts : Start(script)
  BY <1>1 DEF Start, chainVars
<1>2. CASE ScriptStep
  BY <1>2 DEF ScriptStep, SendTx, Refused, AwaitReceipt, ReadState, ReadClock, Skip, Throw,
              Finish, chainVars
<1>3. CASE Interrupted
  BY <1>3 DEF Interrupted, chainVars
<1>4. CASE Mine
  BY <1>4, MineIsNext
<1>5. CASE OthersCall
  <2>1. PICK sender \in Accounts : BuyerCall(sender) \/ InheritedCall(sender)
    BY <1>5 DEF OthersCall
  <2> QED
    BY <2>1 DEF Next
<1>6. CASE MintGoesOn
  BY <1>6 DEF MintGoesOn, Next
<1>7. CASE TimePasses
  BY <1>7 DEF TimePasses, Next
<1>8. CASE UNCHANGED svars
  BY <1>8 DEF svars, chainVars
<1> QED
  BY <1>1, <1>2, <1>3, <1>4, <1>5, <1>6, <1>7, <1>8 DEF ScriptsNext
-----------------------------------------------------------------------------
LEMMA ScriptsInitInv == ScriptsInit => ScriptsInv
<1> SUFFICES ASSUME ScriptsInit PROVE ScriptsInv
  OBVIOUS
<1>1. now \in 0 .. MaxTime /\ clock \in Clocks /\ clock.reads <= now + clock.ahead
  <2>1. clock = [reads |-> 0, ahead |-> 0] /\ now = 0 /\ MaxTime \in Nat
    BY SericaAssumption DEF ScriptsInit, Init
  <2>2. 0 \in 0 .. MaxTime /\ 0 \in Skews \cup {0} /\ 0 = 0 + 0
    BY <2>1
  <2> QED
    BY <2>1, <2>2 DEF Clocks
<1> QED
  BY <1>1 DEF ScriptsInit, ScriptsInv

\* What the node takes is a new entry, sent now, of the script that runs.
LEMMA SubmitStep ==
  ASSUME ScriptsInv, At("send"), Submit(Program[pc].tx), UNCHANGED now
  PROVE  sent' \in Seq(SentTx) /\ \A i \in DOMAIN sent' : InTime(sent[i])'
<1> DEFINE entry == [tx |-> Program[pc].tx, by |-> run.script, at |-> now,
                     status |-> "pending"]
<1>1. Program[pc].tx \in Transaction
  BY ProgramSends DEF At, ScriptsInv
<1>2. run.script \in Scripts
  BY DEF At, Running, ScriptsInv
<1>3. entry \in SentTx
  BY <1>1, <1>2 DEF SentTx, Status, ScriptsInv
<1>4. sent' = Append(sent, entry) /\ sent \in Seq(SentTx)
  BY DEF Submit, ScriptsInv
<1>5. sent' \in Seq(SentTx)
  BY <1>3, <1>4
<1>6. ASSUME NEW i \in DOMAIN sent' PROVE InTime(sent[i])'
  <2>1. CASE i \in DOMAIN sent
    BY <1>4, <2>1 DEF ScriptsInv, InTime
  <2>2. CASE i \notin DOMAIN sent
    <3>1. sent'[i] = entry
      BY <1>4, <1>6, <2>2
    <3> QED
      BY <3>1 DEF InTime, ScriptsInv
  <2> QED
    BY <2>1, <2>2
<1> QED
  BY <1>5, <1>6

LEMMA RunStops ==
  ASSUME ScriptsInv, Running, NEW result \in {"failed", "completed"},
         run' = [run EXCEPT !.result = result]
  PROVE  run' \in [script : Scripts, result : {"running", "failed", "completed"}]
  BY DEF ScriptsInv, Running

\* A transaction that is mined succeeds with a start time after its block.
LEMMA MineStep ==
  ASSUME ScriptsInv, Mine
  PROVE  sent' \in Seq(SentTx) /\ now' = now /\ \A i \in DOMAIN sent' : InTime(sent[i])'
<1>1. PICK i \in DOMAIN sent :
        \/ /\ Accepts(sent[i].tx, now)
           /\ Perform(sent[i].tx)
           /\ sent' = [sent EXCEPT ![i].status = "success"]
        \/ /\ UNCHANGED chainVars
           /\ sent' = [sent EXCEPT ![i].status = "reverted"]
  BY DEF Mine
<1>2. sent \in Seq(SentTx) /\ sent[i] \in SentTx
  BY <1>1 DEF ScriptsInv
<1>3. now' = now
  <2>1. CASE Perform(sent[i].tx)
    <3>1. ASSUME UNCHANGED vars PROVE now' = now
      BY <3>1 DEF vars
    <3>2. ASSUME NEW tx, \/ SetCreators(Deployer, tx.split)
                         \/ AddMintGroup(Deployer, tx.name, tx.terms)
                         \/ UpdateMintGroup(Deployer, tx.name, tx.terms)
          PROVE  now' = now
      BY <3>2 DEF SetCreators, AddMintGroup, UpdateMintGroup
    <3> QED
      BY <2>1, <3>1, <3>2, Zenon DEF Perform
  <2> QED
    BY <1>1, <2>1 DEF chainVars, vars
<1>4. sent' \in Seq(SentTx)
  <2>1. ASSUME NEW status \in Status PROVE [sent[i] EXCEPT !.status = status] \in SentTx
    BY <1>2, <2>1 DEF SentTx
  <2>2. ASSUME NEW entry \in SentTx PROVE [sent EXCEPT ![i] = entry] \in Seq(SentTx)
    BY <1>2, <2>2
  <2>3. "success" \in Status /\ "reverted" \in Status
    BY DEF Status
  <2> QED
    BY <1>1, <2>1, <2>2, <2>3
<1>5. InTime(sent[i])
  BY <1>1 DEF ScriptsInv
<1>6. sent'[i].tx = sent[i].tx /\ sent'[i].at = sent[i].at
  BY <1>1, <1>2 DEF SentTx
<1>7. InTime(sent[i])'
  <2>1. CASE sent'[i].tx.call = "updateMintGroup" /\ sent'[i].status = "success"
    <3>1. Accepts(sent[i].tx, now)
      BY <1>1, <1>2, <2>1 DEF SentTx
    <3>2. sent[i].tx.terms.startTime > now
      BY <3>1, <1>6, <2>1 DEF Accepts, ValidTermsAt
    <3>3. sent[i].tx.terms \in GroupTerms
      BY <1>2, <1>6, <2>1 DEF SentTx, Transaction
    <3>4. sent[i].tx.terms.startTime \in Nat /\ sent[i].at \in Nat /\ now \in Nat
      BY <3>3, <1>2, SericaAssumption DEF Terms, SentTx, ScriptsInv
    <3> QED
      BY <3>2, <3>4, <1>3, <1>5, <1>6 DEF InTime
  <2>2. CASE ~(sent'[i].tx.call = "updateMintGroup" /\ sent'[i].status = "success")
    BY <2>2, <1>3, <1>5, <1>6 DEF InTime
  <2> QED
    BY <2>1, <2>2
<1>8. ASSUME NEW j \in DOMAIN sent' PROVE InTime(sent[j])'
  <2>1. CASE j = i
    BY <2>1, <1>7
  <2>2. CASE j # i
    <3>1. sent'[j] = sent[j] /\ j \in DOMAIN sent
      BY <1>1, <1>2, <2>2
    <3> QED
      BY <3>1, <1>3 DEF InTime, ScriptsInv
  <2> QED
    BY <2>1, <2>2
<1> QED
  BY <1>3, <1>4, <1>8

LEMMA ClockNumbers ==
  ASSUME ScriptsInv
  PROVE  clock.reads \in Nat /\ clock.ahead \in Nat /\ now \in Nat
<1>1. clock.reads \in Nat /\ clock.ahead \in Skews \cup {0}
  BY DEF ScriptsInv, Clocks
<1>2. Skews \cup {0} \subseteq Nat
  BY ScriptsAssumption
<1>3. now \in Nat
  BY SericaAssumption DEF ScriptsInv
<1> QED
  BY <1>1, <1>2, <1>3

LEMMA ScriptsNextInv == ScriptsInv /\ [ScriptsNext]_svars => ScriptsInv'
<1> SUFFICES ASSUME ScriptsInv, [ScriptsNext]_svars PROVE ScriptsInv'
  OBVIOUS
<1> DEFINE Kept == /\ \A i \in DOMAIN sent : InTime(sent[i])
                   /\ sent \in Seq(SentTx)
<1>1. ASSUME UNCHANGED <<sent, now>> PROVE Kept'
  BY <1>1 DEF ScriptsInv, InTime
<1>2. CASE \E script \in Scripts : Start(script)
  <2>1. UNCHANGED <<sent, now, config, clock>>
    BY <1>2 DEF Start, chainVars, vars
  <2> QED
    BY <1>1, <1>2, <2>1 DEF Start, ScriptsInv
<1>3. CASE SendTx
  <2>1. At("send") /\ Submit(Program[pc].tx) /\ UNCHANGED <<now, config, clock, run>>
    BY <1>3 DEF SendTx, Advance, chainVars, vars
  <2> QED
    BY <2>1, SubmitStep DEF ScriptsInv
<1>4. CASE Interrupted
  <2>1. /\ Running /\ UNCHANGED <<now, config, clock>>
        /\ run' = [run EXCEPT !.result = "failed"]
        /\ \/ UNCHANGED sent
           \/ At("send") /\ Submit(Program[pc].tx)
    BY <1>4 DEF Interrupted, Stop, chainVars, vars
  <2>2. Kept'
    BY <1>1, <2>1, SubmitStep
  <2> QED
    BY <2>1, <2>2, RunStops DEF ScriptsInv
<1>5. CASE Refused \/ AwaitReceipt \/ ReadState \/ Skip \/ Throw \/ Finish
  <2>1. UNCHANGED <<sent, now, config, clock>>
    BY <1>5 DEF Refused, AwaitReceipt, ReadState, Skip, Throw, Finish, Advance, Stop,
                chainVars, vars
  <2>2. /\ Running
        /\ \/ UNCHANGED run
           \/ run' = [run EXCEPT !.result = "failed"]
           \/ run' = [run EXCEPT !.result = "completed"]
    BY <1>5 DEF Refused, AwaitReceipt, ReadState, Skip, Throw, Finish, Advance, Stop, At
  <2> QED
    BY <1>1, <2>1, <2>2, RunStops DEF ScriptsInv
<1>6. CASE ReadClock
  <2>1. /\ UNCHANGED <<sent, now, config, run>>
        /\ \E skew \in Skews : clock' = [reads |-> now + skew, ahead |-> skew]
    BY <1>6 DEF ReadClock, Advance, chainVars, vars
  <2>2. PICK skew \in Skews : clock' = [reads |-> now + skew, ahead |-> skew]
    BY <2>1
  <2>3. skew \in Nat /\ now \in 0 .. MaxTime /\ MaxTime \in Nat
    BY ScriptsAssumption, SericaAssumption DEF ScriptsInv
  <2>4. /\ clock' \in [reads : Nat, ahead : Skews \cup {0}]
        /\ clock'.reads = now + skew /\ clock'.ahead = skew
    BY <2>2, <2>3
  <2>5. (clock \in Clocks)'
    BY <2>3, <2>4 DEF Clocks
  <2>6. (clock.reads <= now + clock.ahead)'
    BY <2>1, <2>3, <2>4
  <2> QED
    BY <1>1, <2>1, <2>5, <2>6 DEF ScriptsInv, Clocks
<1>7. CASE Mine
  <2>1. UNCHANGED <<config, clock, run>>
    BY <1>7 DEF Mine, scriptVars
  <2> QED
    BY <1>7, <2>1, MineStep DEF ScriptsInv, Clocks
<1>8. CASE OthersCall \/ MintGoesOn
  <2>1. UNCHANGED <<sent, config, clock, run>>
    BY <1>8 DEF OthersCall, MintGoesOn, scriptVars
  <2>2. ASSUME NEW sender, BuyerCall(sender) \/ InheritedCall(sender) PROVE now' = now
    <3>1. ASSUME NEW name, NEW payment, Mint(sender, name, payment) PROVE now' = now
      BY <3>1 DEF Mint
    <3>2. ASSUME NEW name, NEW quantity, NEW payment,
                 BatchMint(sender, name, quantity, payment)
          PROVE  now' = now
      BY <3>2 DEF BatchMint
    <3>3. ASSUME InheritedCall(sender) PROVE now' = now
      BY <3>3 DEF InheritedCall
    <3> QED
      BY <2>2, <3>1, <3>2, <3>3, Zenon DEF BuyerCall
  <2>3. ASSUME MintGoesOn PROVE now' = now
    <3>1. ASSUME PayCreator PROVE now' = now
      BY <3>1 DEF PayCreator
    <3>2. ASSUME FinishMint PROVE now' = now
      BY <3>2 DEF FinishMint
    <3>3. ASSUME Abort PROVE now' = now
      BY <3>3 DEF Abort
    <3> QED
      BY <2>3, <3>1, <3>2, <3>3, Zenon DEF MintGoesOn
  <2>4. now' = now
    <3>1. ASSUME OthersCall
          PROVE  \E sender \in Accounts \ {Deployer} : BuyerCall(sender) \/ InheritedCall(sender)
      BY <3>1, Zenon DEF OthersCall
    <3> QED
      BY <1>8, <2>2, <2>3, <3>1, Zenon
  <2> QED
    BY <1>1, <2>1, <2>4 DEF ScriptsInv, Clocks
<1>9. CASE TimePasses
  <2>1. UNCHANGED <<sent, config, clock, run>> /\ now' = now + 1 /\ now' \in 0 .. MaxTime
    BY <1>9, SericaAssumption DEF TimePasses, scriptVars, Tick, ScriptsInv
  <2>2. ASSUME NEW i \in DOMAIN sent PROVE InTime(sent[i])'
    <3>1. sent[i].at \in Nat
      BY SentFields DEF ScriptsInv
    <3> QED
      BY <3>1, <2>1 DEF ScriptsInv, InTime
  <2>3. (clock.reads <= now + clock.ahead)'
    <3>1. clock' = clock /\ now' = now + 1 /\ clock.reads <= now + clock.ahead
      BY <2>1 DEF ScriptsInv
    <3> QED
      BY <3>1, ClockNumbers
  <2> QED
    BY <2>1, <2>2, <2>3 DEF ScriptsInv, Clocks
<1>10. CASE UNCHANGED svars
  <2>1. UNCHANGED <<sent, now, config, clock, run>>
    BY <1>10 DEF svars, chainVars, vars, scriptVars
  <2> QED
    BY <1>1, <2>1 DEF ScriptsInv, Clocks
<1> QED
  BY <1>2, <1>3, <1>4, <1>5, <1>6, <1>7, <1>8, <1>9, <1>10 DEF ScriptsNext, ScriptStep
-----------------------------------------------------------------------------
LEMMA ScriptsInvariance == ScriptsSpec => []ScriptsInv
<1> QED
  BY ScriptsInitInv, ScriptsNextInv, PTL DEF ScriptsSpec

(***************************************************************************)
(* The collection as the scripts and the buyers run it implements the      *)
(* collection.                                                             *)
(***************************************************************************)
THEOREM CollectionImplemented == ScriptsSpec => Spec
<1>1. ScriptsInit => Init
  BY DEF ScriptsInit
<1>2. ScriptsInv /\ [ScriptsNext]_svars => [Next]_vars
  BY ScriptsStepIsNext DEF ScriptsInv
<1> QED
  BY <1>1, <1>2, ScriptsInvariance, PTL DEF ScriptsSpec, Spec

(***************************************************************************)
(* So its storage is sound, whatever the scripts did half-way.             *)
(***************************************************************************)
THEOREM CollectionStaysSound == ScriptsSpec => []Inv /\ MintsAreLogged
<1> QED
  BY CollectionImplemented, Invariance, LogIsImplemented, PTL

-----------------------------------------------------------------------------
(***************************************************************************)
(* What the scripts rely on: the operator alone sets the collection up,    *)
(* and its transactions are mined in their order.                          *)
(***************************************************************************)
\* What the operator has set up in a storage, which nobody else changes.
Setup(s) ==
    [members |-> s.members, creators |-> s.creators, index |-> s.groupIndexByName,
     terms |-> [i \in DOMAIN s.mintGroups |-> s.mintGroups[i].terms]]

OperatorAlone ==
    members = [role \in Roles |->
                 IF role \in {DEFAULT_ADMIN_ROLE, ADMIN_ROLE} THEN {Deployer} ELSE {}]

SetupKept ==
    /\ OperatorAlone
    /\ \A i \in DOMAIN frames : Setup(frames[i].saved) = Setup(Storage)

LEMMA SetupOfStorage ==
  Setup(Storage) = [members |-> members, creators |-> creators, index |-> groupIndexByName,
                    terms |-> [i \in DOMAIN mintGroups |-> mintGroups[i].terms]]
  BY DEF Setup, Storage

LEMMA SetupOfStoragePrime ==
  Setup(Storage)' = [members |-> members', creators |-> creators', index |-> groupIndexByName',
                     terms |-> [i \in DOMAIN mintGroups' |-> mintGroups'[i].terms]]
  BY DEF Setup, Storage

\* The same setup, variable by variable.
LEMMA SameSetup ==
  ASSUME Setup(Storage)' = Setup(Storage)
  PROVE  /\ members' = members /\ creators' = creators
         /\ groupIndexByName' = groupIndexByName
         /\ DOMAIN mintGroups' = DOMAIN mintGroups
         /\ \A i \in DOMAIN mintGroups : mintGroups'[i].terms = mintGroups[i].terms
<1> DEFINE T == [i \in DOMAIN mintGroups |-> mintGroups[i].terms]
           U == [i \in DOMAIN mintGroups' |-> mintGroups'[i].terms]
<1>1. DOMAIN T = DOMAIN mintGroups /\ \A i \in DOMAIN mintGroups : T[i] = mintGroups[i].terms
  OBVIOUS
<1>2. DOMAIN U = DOMAIN mintGroups' /\ \A i \in DOMAIN mintGroups' : U[i] = mintGroups'[i].terms
  OBVIOUS
<1>3. /\ Setup(Storage) = [members |-> members, creators |-> creators,
                           index |-> groupIndexByName, terms |-> T]
      /\ Setup(Storage)' = [members |-> members', creators |-> creators',
                            index |-> groupIndexByName', terms |-> U]
  BY SetupOfStorage, SetupOfStoragePrime
<1> HIDE DEF T, U
<1>4. members' = members /\ creators' = creators /\ groupIndexByName' = groupIndexByName /\ U = T
  BY <1>3
<1> QED
  BY <1>1, <1>2, <1>4

\* A mint moves the count of its group, and leaves its terms.
LEMMA CountKeepsTerms ==
  ASSUME Inv, NEW sender, NEW name \in GroupNames, GroupExists(name), NEW q,
         CountMint(sender, name, q)
  PROVE  [i \in DOMAIN mintGroups' |-> mintGroups'[i].terms]
           = [i \in DOMAIN mintGroups |-> mintGroups[i].terms]
<1> DEFINE k == groupIndexByName[name]
<1>1. mintGroups \in Seq(MintGroup)
  BY DEF Inv, TypeOK, StorageType, Storage
<1>2. k \in DOMAIN mintGroups
  BY DEF Inv, TypeOK, Sound, IndexFits, StorageType, Storage, GroupExists
<1>3. mintGroups[k] \in MintGroup
  BY <1>1, <1>2, ElementOfSeq, LenProperties
<1>4. PICK count : mintGroups' = [mintGroups EXCEPT ![k] = [@ EXCEPT !.mintedInGroup = count]]
  BY DEF CountMint
<1>5. /\ DOMAIN mintGroups' = DOMAIN mintGroups
      /\ \A i \in DOMAIN mintGroups : mintGroups'[i].terms = mintGroups[i].terms
  BY <1>2, <1>3, <1>4 DEF MintGroup
<1> QED
  BY <1>5

LEMMA BuyersKeepSetup ==
  ASSUME Inv, SetupKept, NEW sender \in Accounts \ {Deployer},
         BuyerCall(sender) \/ InheritedCall(sender)
  PROVE  Setup(Storage)' = Setup(Storage) /\ now' = now
<1>1. ASSUME UNCHANGED <<members, creators, groupIndexByName, mintGroups>>
      PROVE  Setup(Storage)' = Setup(Storage)
  BY <1>1, SetupOfStorage, SetupOfStoragePrime
<1>2. ASSUME NEW name \in GroupNames, NEW payment, Mint(sender, name, payment)
      PROVE  Setup(Storage)' = Setup(Storage) /\ now' = now
  <2>1. CountMint(sender, name, 1) /\ GroupExists(name)
    BY <1>2 DEF Mint, Issue
  <2>2. UNCHANGED <<members, creators, groupIndexByName, now>>
    BY <1>2 DEF Mint, Issue
  <2> QED
    BY <2>1, <2>2, CountKeepsTerms, SetupOfStorage, SetupOfStoragePrime
<1>3. ASSUME NEW name \in GroupNames, NEW payment, NEW quantity,
             BatchMint(sender, name, quantity, payment)
      PROVE  Setup(Storage)' = Setup(Storage) /\ now' = now
  <2>1. CountMint(sender, name, quantity) /\ GroupExists(name)
    BY <1>3 DEF BatchMint, Issue
  <2>2. UNCHANGED <<members, creators, groupIndexByName, now>>
    BY <1>3 DEF BatchMint, Issue
  <2> QED
    BY <2>1, <2>2, CountKeepsTerms, SetupOfStorage, SetupOfStoragePrime
<1>4. CASE InheritedCall(sender)
  <2>1. UNCHANGED <<creators, groupIndexByName, mintGroups, now>>
    BY <1>4 DEF InheritedCall, saleVars
  <2>2. \A role \in Roles : sender \notin members[role]
    BY DEF SetupKept, OperatorAlone
  <2>3. ASSUME RoleCall(sender) PROVE members' = members
    <3>1. DEFAULT_ADMIN_ROLE \in Roles
      BY AccessControlAssumption
    <3>2. PICK role \in Roles : RenounceRole(sender, role)
      BY <2>2, <2>3, <3>1 DEF RoleCall, GrantRole, RevokeRole, HasRole, GetRoleAdmin
    <3>3. members' = [members EXCEPT ![role] = members[role] \ {sender}]
      BY <3>2 DEF RenounceRole
    <3>4. members[role] \ {sender} = members[role]
      BY <2>2
    <3>5. members \in [Roles -> SUBSET Accounts]
      BY DEF Inv, TypeOK, StorageType, Storage
    <3> QED
      BY <3>3, <3>4, <3>5
  <2>4. members' = members
    BY <1>4, <2>3 DEF InheritedCall
  <2> QED
    BY <1>1, <2>1, <2>4
<1> QED
  BY <1>2, <1>3, <1>4 DEF BuyerCall

LEMMA OthersKeepSetup ==
  ASSUME Inv, SetupKept, OthersCall \/ MintGoesOn \/ TimePasses
  PROVE  /\ Setup(Storage)' = Setup(Storage) /\ SetupKept'
         /\ now \in Nat /\ (now' = now \/ now' = now + 1)
<1>1. now \in Nat /\ frames \in Seq(Frame)
  BY DEF Inv, TypeOK
<1>2. ASSUME UNCHANGED <<members, creators, groupIndexByName, mintGroups>>
      PROVE  Setup(Storage)' = Setup(Storage)
  BY <1>2, SetupOfStorage, SetupOfStoragePrime
<1>3. ASSUME Abort PROVE Setup(Storage)' = Setup(Storage) /\ now' = now
  <2>1. frames # <<>> /\ frames' = Front(frames) /\ Restore(Top.saved) /\ now' = now
    BY <1>3 DEF Abort, Idle
  <2>2. Top \in Frame /\ Top = frames[Len(frames)] /\ Len(frames) \in DOMAIN frames
    BY <1>1, <2>1, FrontFrames
  <2>3. Storage' = Top.saved
    BY <2>1, <2>2, RestoreStorage DEF Frame
  <2>4. Setup(Top.saved) = Setup(Storage)
    BY <2>2 DEF SetupKept
  <2>5. Setup(Storage)' = Setup(Top.saved)
    BY <2>3 DEF Setup
  <2> QED
    BY <2>1, <2>4, <2>5
<1>4. ASSUME PayCreator \/ FinishMint \/ Tick PROVE Setup(Storage)' = Setup(Storage)
  <2>1. UNCHANGED <<members, creators, groupIndexByName, mintGroups>>
    BY <1>4 DEF PayCreator, FinishMint, Tick, saleVars
  <2> QED
    BY <1>2, <2>1
<1>5. Setup(Storage)' = Setup(Storage) /\ (now' = now \/ now' = now + 1)
  <2>1. CASE OthersCall
    <3>1. PICK sender \in Accounts \ {Deployer} : BuyerCall(sender) \/ InheritedCall(sender)
      BY <2>1, Zenon DEF OthersCall
    <3> QED
      BY <3>1, BuyersKeepSetup
  <2>2. CASE MintGoesOn
    <3>1. CASE PayCreator \/ FinishMint
      <4>1. now' = now
        BY <3>1 DEF PayCreator, FinishMint
      <4> QED
        BY <1>4, <3>1, <4>1
    <3>2. CASE Abort
      BY <1>3, <3>2
    <3> QED
      BY <2>2, <3>1, <3>2, Zenon DEF MintGoesOn
  <2>3. CASE TimePasses
    <3>1. Tick
      BY <2>3 DEF TimePasses
    <3> QED
      BY <1>4, <3>1 DEF Tick
  <2> QED
    BY <2>1, <2>2, <2>3
<1>6. SetupKept'
  <2>1. [Next]_vars
    BY DEF OthersCall, MintGoesOn, TimePasses, Next
  <2>2. members' = members
    BY <1>5, SameSetup
  <2>3. \A i \in DOMAIN frames' : Setup(frames'[i].saved) = Setup(Storage)
    BY <2>1, SavedStep DEF SetupKept
  <2> QED
    BY <1>5, <2>2, <2>3 DEF SetupKept, OperatorAlone
<1> QED
  BY <1>1, <1>5, <1>6
-----------------------------------------------------------------------------
(***************************************************************************)
(* What the scripts send, and where.                                       *)
(***************************************************************************)
SendsCall(k, call) == Program[k].op = "send" /\ Program[k].tx.call = call

LEMMA GroupStatementIs ==
  ASSUME NEW group, ConfigGroup(group)
  PROVE  \/ GroupStatement(group).op = "throw"
         \/ /\ GroupStatement(group).op = "send"
            /\ GroupStatement(group).tx.call = "addMintGroup"
            /\ GroupStatement(group).tx.name = group.name
  BY DEF ConfigGroup, GroupStatement, Failure, Send

LEMMA CreatorsStatementIs ==
  ASSUME NEW group, ConfigGroup(group)
  PROVE  \/ group.creators = <<>> /\ CreatorsStatement(group).op = "nothing"
         \/ CreatorsStatement(group).op = "throw"
         \/ CreatorsStatement(group).op = "send" /\ CreatorsStatement(group).tx.call = "setCreators"
  BY DEF ConfigGroup, CreatorsStatement, Nothing, Failure, Send

\* A deployment sends the deployment first, and groups after the creators.
LEMMA DeploySends ==
  ASSUME config \in Configs, NEW k \in DOMAIN Program, run.script \in DeployScripts
  PROVE  /\ SendsCall(k, "deploy") => k = 1
         /\ SendsCall(k, "addMintGroup") /\ run.script = "deploy-serica" => k >= 4
         /\ run.script = "deploy-serica" /\ k = 3 /\ config # <<>> /\ config[1].creators # <<>>
              => SendsCall(k, "setCreators") \/ Program[k].op = "throw"
<1>1. Wait(1).op = "wait" /\ Send(Deployment).tx.call = "deploy"
  BY DEF Wait, Send, Deployment
<1>2. CASE run.script = "deploy-serica"
  <2>1. ASSUME k = 3
        PROVE  \/ Program[k].op \in {"throw", "nothing"}
               \/ Program[k].op = "send" /\ Program[k].tx.call = "setCreators"
    <3>1. config = <<>> => FirstCreators.op = "throw"
      BY DEF FirstCreators, Failure
    <3>2. config # <<>> => ConfigGroup(config[1])
      BY ConfigType
    <3> QED
      BY <1>2, <2>1, <3>1, <3>2, DeployProgram, CreatorsStatementIs DEF FirstCreators
  <2>2. ASSUME k = 3, config # <<>>, config[1].creators # <<>> PROVE Program[k].op # "nothing"
    <3>1. ConfigGroup(config[1])
      BY <2>2, ConfigType
    <3> QED
      BY <1>2, <2>2, <3>1, DeployProgram, CreatorsStatementIs DEF FirstCreators
  <2>3. ASSUME k \in 4 .. 3 + Len(config) PROVE ~SendsCall(k, "deploy")
    BY <1>2, <2>3, ConfigType, DeployProgram, GroupStatementIs DEF SendsCall
  <2>4. k = 1 \/ k = 2 \/ k = 3 \/ k \in 4 .. 3 + Len(config)
    BY <1>2, DeployProgram
  <2> QED
    BY <1>1, <1>2, <2>1, <2>2, <2>3, <2>4, DeployProgram DEF SendsCall
<1>3. CASE run.script = "old_scripts/deploy"
  <2>1. ASSUME k \in 3 .. 2 + 2 * Len(config) PROVE ~SendsCall(k, "deploy")
    BY <1>3, <2>1, ConfigType, OldDeployProgram, GroupStatementIs, CreatorsStatementIs DEF SendsCall
  <2>2. k = 1 \/ k = 2 \/ k \in 3 .. 2 + 2 * Len(config)
    BY <1>3, OldDeployProgram
  <2> QED
    BY <1>1, <1>3, <2>1, <2>2, OldDeployProgram DEF SendsCall
<1> QED
  BY <1>2, <1>3 DEF DeployScripts

\* The other scripts neither deploy nor add groups.
LEMMA UpkeepSends ==
  ASSUME NEW k \in DOMAIN Program, run.script \notin DeployScripts
  PROVE  ~SendsCall(k, "deploy") /\ ~SendsCall(k, "addMintGroup")
<1>1. CASE run.script = "update-mint-group"
  <2>1. Program = UpdateMintGroups /\ k \in 1 .. 9
    BY <1>1 DEF Program, UpdateMintGroups
  <2> QED
    BY <2>1 DEF UpdateMintGroups, SendsCall, Read, Send, Wait, UpdateMintGroup1, UpdateMintGroup2
<1>2. CASE run.script \in {"update-base-uri", "upgrade-contracts", "old_scripts/upgrade",
                           "test-deployment"}
  <2>1. Program \in {UpdateBaseURI, UpgradeContracts, OldUpgrade, TestDeployment}
    BY <1>2 DEF Program
  <2>2. CASE Program = UpdateBaseURI
    <3>1. k = 1 \/ k = 2
      BY <2>2 DEF UpdateBaseURI
    <3> QED
      BY <2>2, <3>1 DEF UpdateBaseURI, SendsCall, Send, Wait
  <2>3. CASE Program = UpgradeContracts
    BY <2>3 DEF UpgradeContracts, SendsCall, Send
  <2>4. CASE Program = OldUpgrade \/ Program = TestDeployment
    BY <2>4 DEF OldUpgrade, TestDeployment, SendsCall, Failure
  <2> QED
    BY <2>1, <2>2, <2>3, <2>4
<1>3. CASE run.script \notin Scripts
  BY <1>3 DEF Program, Scripts, DeployScripts, UpkeepScripts
<1> QED
  BY <1>1, <1>2, <1>3 DEF Scripts, DeployScripts, UpkeepScripts

LEMMA ProgramLength ==
  ASSUME config \in Configs
  PROVE  Len(Program) \in Nat /\ DOMAIN Program = 1 .. Len(Program)
<1>1. CASE run.script = "deploy-serica"
  BY <1>1, DeployProgram
<1>2. CASE run.script = "old_scripts/deploy"
  BY <1>2, OldDeployProgram
<1>3. CASE run.script = "update-mint-group"
  BY <1>3 DEF Program, UpdateMintGroups
<1>4. CASE run.script \notin {"deploy-serica", "old_scripts/deploy", "update-mint-group"}
  <2>1. Program \in {UpdateBaseURI, UpgradeContracts, OldUpgrade, TestDeployment, <<>>}
    BY <1>4 DEF Program
  <2>2. CASE Program = UpdateBaseURI
    BY <2>2 DEF UpdateBaseURI
  <2>3. CASE Program \in {UpgradeContracts, OldUpgrade, TestDeployment}
    BY <2>3 DEF UpgradeContracts, OldUpgrade, TestDeployment
  <2>4. CASE Program = <<>>
    BY <2>4
  <2> QED
    BY <2>1, <2>2, <2>3, <2>4
<1> QED
  BY <1>1, <1>2, <1>3, <1>4

LEMMA ProgramLengthIn == config \in Configs => Len(Program) \in Nat
  BY ProgramLength

\* The statements stay the same ones, but for the times that update-mint-group sends.
LEMMA SameProgram ==
  ASSUME config' = config, run'.script = run.script,
         clock' = clock \/ run.script # "update-mint-group"
  PROVE  Program' = Program
<1>1. /\ AddGroups' = AddGroups /\ FirstCreators' = FirstCreators
      /\ DeploySerica' = DeploySerica /\ OldDeploy' = OldDeploy
  BY DEF AddGroups, FirstCreators, DeploySerica, OldDeploy, GroupStatement, CreatorsStatement
<1>2. clock' = clock => UpdateMintGroups' = UpdateMintGroups
  BY DEF UpdateMintGroups, UpdateMintGroup1, UpdateMintGroup2
<1>3. /\ UpdateBaseURI' = UpdateBaseURI /\ UpgradeContracts' = UpgradeContracts
      /\ OldUpgrade' = OldUpgrade /\ TestDeployment' = TestDeployment
  BY DEF UpdateBaseURI, UpgradeContracts, OldUpgrade, TestDeployment
<1> QED
  BY <1>1, <1>2, <1>3 DEF Program

LEMMA SameLength ==
  ASSUME config' = config, run'.script = run.script
  PROVE  Len(Program)' = Len(Program)
<1>1. CASE run.script = "update-mint-group"
  <2>1. Program = UpdateMintGroups /\ Program' = UpdateMintGroups'
    BY <1>1 DEF Program
  <2>2. Len(UpdateMintGroups) = 9 /\ Len(UpdateMintGroups)' = 9
    BY DEF UpdateMintGroups
  <2> QED
    BY <2>1, <2>2
<1>2. CASE run.script # "update-mint-group"
  BY <1>2, SameProgram
<1> QED
  BY <1>1, <1>2

\* Only update-mint-group reads the clock.
LEMMA ClockStatement ==
  ASSUME config \in Configs, NEW k \in DOMAIN Program, Program[k].op = "clock"
  PROVE  run.script = "update-mint-group" /\ k = 3
<1>1. /\ Wait(1).op = "wait" /\ Send(Deployment).op = "send"
  BY DEF Wait, Send
<1>2. ASSUME run.script = "deploy-serica" PROVE FALSE
  <2>1. CASE k = 3
    <3>1. config = <<>> => FirstCreators.op = "throw"
      BY DEF FirstCreators, Failure
    <3>2. config # <<>> => ConfigGroup(config[1])
      BY ConfigType
    <3> QED
      BY <1>2, <2>1, <3>1, <3>2, DeployProgram, CreatorsStatementIs DEF FirstCreators
  <2>2. CASE k \in 4 .. 3 + Len(config)
    BY <1>2, <2>2, ConfigType, DeployProgram, GroupStatementIs
  <2> QED
    BY <1>1, <1>2, <2>1, <2>2, DeployProgram
<1>3. ASSUME run.script = "old_scripts/deploy" PROVE FALSE
  <2>1. CASE k \in 3 .. 2 + 2 * Len(config)
    BY <1>3, <2>1, ConfigType, OldDeployProgram, GroupStatementIs, CreatorsStatementIs
  <2> QED
    BY <1>1, <1>3, <2>1, OldDeployProgram
<1>4. CASE run.script = "update-mint-group"
  <2>1. Program = UpdateMintGroups /\ k \in 1 .. 9
    BY <1>4 DEF Program, UpdateMintGroups
  <2> QED
    BY <1>4, <2>1 DEF UpdateMintGroups, Read, Send, Wait
<1>5. ASSUME run.script \notin {"deploy-serica", "old_scripts/deploy", "update-mint-group"}
      PROVE  FALSE
  <2>1. Program \in {UpdateBaseURI, UpgradeContracts, OldUpgrade, TestDeployment, <<>>}
    BY <1>5 DEF Program
  <2>2. CASE Program = UpdateBaseURI
    BY <2>2 DEF UpdateBaseURI, Send, Wait
  <2>3. CASE Program \in {UpgradeContracts, OldUpgrade, TestDeployment, <<>>}
    BY <2>3 DEF UpgradeContracts, OldUpgrade, TestDeployment, Send, Failure
  <2> QED
    BY <2>1, <2>2, <2>3
<1> QED
  BY <1>2, <1>3, <1>4, <1>5
-----------------------------------------------------------------------------
(***************************************************************************)
(* Where a script is, and where its transactions begin.                    *)
(***************************************************************************)
\* A step of the script that runs: it goes on, or it is over.
LEMMA ControlStep ==
  ASSUME ScriptsInv,
         SendTx \/ Refused \/ Interrupted \/ AwaitReceipt \/ ReadState \/ ReadClock
           \/ Skip \/ Throw \/ Finish
  PROVE  /\ Running /\ UNCHANGED <<chainVars, config, first, runs>>
         /\ run'.script = run.script
         /\ \/ pc' = pc + 1 /\ pc \in DOMAIN Program /\ UNCHANGED run
            \/ /\ pc' = pc /\ clock' = clock
               /\ \/ run' = [run EXCEPT !.result = "failed"]
                  \/ run' = [run EXCEPT !.result = "completed"] /\ Finish
<1>1. /\ Running /\ UNCHANGED <<chainVars, config, first, runs>>
      /\ \/ pc' = pc + 1 /\ pc \in DOMAIN Program /\ UNCHANGED run
         \/ /\ pc' = pc /\ clock' = clock
            /\ \/ run' = [run EXCEPT !.result = "failed"]
               \/ run' = [run EXCEPT !.result = "completed"] /\ Finish
  <2>1. CASE SendTx \/ Skip \/ ReadClock
    BY <2>1 DEF SendTx, Skip, ReadClock, At, Advance
  <2>2. CASE Refused \/ Interrupted \/ Throw
    BY <2>2 DEF Refused, Interrupted, Throw, At, Stop
  <2>3. CASE AwaitReceipt
    BY <2>3 DEF AwaitReceipt, At, Advance, Stop
  <2>4. CASE ReadState
    BY <2>4 DEF ReadState, At, Advance, Stop
  <2>5. CASE Finish
    BY <2>5 DEF Finish, Stop
  <2> QED
    BY <2>1, <2>2, <2>3, <2>4, <2>5
<1>2. run'.script = run.script
  BY <1>1 DEF ScriptsInv, Running
<1> QED
  BY <1>1, <1>2

LEMMA SubmitAppends ==
  ASSUME ScriptsInv, At("send"), Submit(Program[pc].tx)
  PROVE  LET entry == [tx |-> Program[pc].tx, by |-> run.script, at |-> now,
                       status |-> "pending"]
         IN  /\ sent' = Append(sent, entry) /\ entry \in SentTx
             /\ Len(sent) \in Nat /\ Len(sent') = Len(sent) + 1
             /\ DOMAIN sent = 1 .. Len(sent) /\ DOMAIN sent' = 1 .. Len(sent) + 1
             /\ \A i \in DOMAIN sent : sent'[i] = sent[i]
             /\ sent'[Len(sent) + 1] = entry
<1> DEFINE entry == [tx |-> Program[pc].tx, by |-> run.script, at |-> now,
                     status |-> "pending"]
<1>1. Program[pc].tx \in Transaction
  BY ProgramSends DEF At, ScriptsInv
<1>2. run.script \in Scripts
  BY DEF At, Running, ScriptsInv
<1>3. entry \in SentTx
  BY <1>1, <1>2 DEF SentTx, Status, ScriptsInv
<1>4. sent' = Append(sent, entry) /\ sent \in Seq(SentTx)
  BY DEF Submit, ScriptsInv
<1> HIDE DEF entry
<1>5. /\ Len(sent) \in Nat /\ Len(sent') = Len(sent) + 1
      /\ DOMAIN sent = 1 .. Len(sent) /\ DOMAIN sent' = 1 .. Len(sent) + 1
      /\ \A i \in DOMAIN sent : sent'[i] = sent[i]
      /\ sent'[Len(sent) + 1] = entry
  BY <1>3, <1>4
<1> QED
  BY <1>3, <1>4, <1>5 DEF entry

\* What the control of a script does to the pool: nothing, or one transaction more.
LEMMA PoolGrows ==
  ASSUME ScriptsInv,
         SendTx \/ Refused \/ Interrupted \/ AwaitReceipt \/ ReadState \/ ReadClock
           \/ Skip \/ Throw \/ Finish
  PROVE  \/ UNCHANGED sent
         \/ At("send") /\ Submit(Program[pc].tx)
<1>1. CASE SendTx
  BY <1>1 DEF SendTx
<1>2. CASE Interrupted
  BY <1>2 DEF Interrupted
<1>3. CASE Refused \/ AwaitReceipt \/ ReadState
  BY <1>3 DEF Refused, AwaitReceipt, ReadState
<1>4. CASE ReadClock \/ Skip \/ Throw \/ Finish
  BY <1>4 DEF ReadClock, Skip, Throw, Finish
<1> QED
  BY <1>1, <1>2, <1>3, <1>4

Positions ==
    /\ deployed \in BOOLEAN
    /\ pc \in 1 .. Len(Program) + 1
    /\ first \in 0 .. Len(sent)
    /\ runs \in Nat /\ implementation \in Nat
    /\ tokenBaseURI \in {"config", "script"}

LEMMA PositionsInit == ScriptsInit => Positions
<1> SUFFICES ASSUME ScriptsInit PROVE Positions
  OBVIOUS
<1>1. Program = <<>>
  BY DEF ScriptsInit, Program
<1>2. /\ deployed = FALSE /\ pc = 1 /\ first = 0 /\ sent = <<>> /\ runs = 0
      /\ implementation = 1 /\ tokenBaseURI = "config"
  BY DEF ScriptsInit
<1>3. pc \in 1 .. Len(Program) + 1 /\ first \in 0 .. Len(sent)
  BY <1>1, <1>2
<1> QED
  BY <1>2, <1>3 DEF Positions

\* What a transaction does, one call at a time.
LEMMA PerformCases ==
  ASSUME NEW tx, Perform(tx)
  PROVE  \/ /\ tx.call = "deploy"
            /\ deployed' = TRUE /\ UNCHANGED <<vars, tokenBaseURI, implementation>>
         \/ /\ \/ tx.call = "setCreators" /\ SetCreators(Deployer, tx.split)
               \/ tx.call = "addMintGroup" /\ AddMintGroup(Deployer, tx.name, tx.terms)
               \/ tx.call = "updateMintGroup" /\ UpdateMintGroup(Deployer, tx.name, tx.terms)
            /\ UNCHANGED <<deployed, tokenBaseURI, implementation>>
         \/ /\ tx.call = "setBaseURI"
            /\ tokenBaseURI' = "script" /\ UNCHANGED <<vars, deployed, implementation>>
         \/ /\ tx.call = "upgradeTo"
            /\ implementation' = implementation + 1
            /\ UNCHANGED <<vars, deployed, tokenBaseURI>>
  BY Zenon DEF Perform

LEMMA PerformKeepsTypes ==
  ASSUME Positions, NEW tx, Perform(tx)
  PROVE  /\ deployed' \in BOOLEAN /\ implementation' \in Nat
         /\ tokenBaseURI' \in {"config", "script"}
<1>1. \/ deployed' = TRUE /\ UNCHANGED <<tokenBaseURI, implementation>>
      \/ UNCHANGED <<deployed, tokenBaseURI, implementation>>
      \/ tokenBaseURI' = "script" /\ UNCHANGED <<deployed, implementation>>
      \/ implementation' = implementation + 1 /\ UNCHANGED <<deployed, tokenBaseURI>>
  <2>1. ASSUME UNCHANGED <<vars, tokenBaseURI, implementation>>
        PROVE  UNCHANGED <<tokenBaseURI, implementation>>
    BY <2>1
  <2>2. ASSUME UNCHANGED <<vars, deployed, implementation>>
        PROVE  UNCHANGED <<deployed, implementation>>
    BY <2>2
  <2>3. ASSUME UNCHANGED <<vars, deployed, tokenBaseURI>>
        PROVE  UNCHANGED <<deployed, tokenBaseURI>>
    BY <2>3
  <2> QED
    BY <2>1, <2>2, <2>3, PerformCases, Zenon
<1>2. implementation \in Nat /\ implementation + 1 \in Nat
  BY DEF Positions
<1>3. deployed \in BOOLEAN /\ tokenBaseURI \in {"config", "script"}
  BY DEF Positions
<1>4. "script" \in {"config", "script"} /\ TRUE \in BOOLEAN
  OBVIOUS
<1> QED
  BY <1>1, <1>2, <1>3, <1>4, Zenon

LEMMA PositionsNext ==
  ASSUME ScriptsInv, Positions, [ScriptsNext]_svars
  PROVE  Positions'
<1>0. sent \in Seq(SentTx) /\ Len(sent) \in Nat /\ Len(Program) \in Nat
  BY ProgramLength DEF ScriptsInv
<1>1. CASE \E script \in Scripts : Start(script)
  <2>1. (config \in Configs)'
    BY <1>1 DEF Start, ScriptsInv
  <2>2. (Len(Program) \in Nat)'
    BY <2>1, ProgramLengthIn, PTL
  <2> QED
    BY <1>0, <1>1, <2>2 DEF Start, Positions, chainVars
<1>2. ASSUME SendTx \/ Refused \/ Interrupted \/ AwaitReceipt \/ ReadState \/ ReadClock
               \/ Skip \/ Throw \/ Finish
      PROVE  Positions'
  <2>1. /\ UNCHANGED <<chainVars, config, first, runs>> /\ run'.script = run.script
        /\ \/ pc' = pc
           \/ pc' = pc + 1 /\ pc \in DOMAIN Program
    BY <1>2, ControlStep
  <2>2. Len(Program)' = Len(Program)
    BY <2>1, SameLength
  <2>3. pc' \in 1 .. Len(Program)' + 1
    <3>1. DOMAIN Program = 1 .. Len(Program)
      BY ProgramLength DEF ScriptsInv
    <3> QED
      BY <1>0, <2>1, <2>2, <3>1 DEF Positions
  <2>4. Len(sent') = Len(sent) \/ Len(sent') = Len(sent) + 1
    BY <1>2, PoolGrows, SubmitAppends
  <2> QED
    BY <1>0, <2>1, <2>3, <2>4 DEF Positions, chainVars
<1>3. CASE Mine
  <2>1. UNCHANGED <<config, run, pc, first, runs>> /\ Len(sent') = Len(sent)
    BY <1>0, <1>3 DEF Mine, scriptVars
  <2>2. Len(Program)' = Len(Program)
    BY <2>1, SameLength
  <2>3. /\ deployed' \in BOOLEAN /\ implementation' \in Nat
        /\ tokenBaseURI' \in {"config", "script"}
    <3>1. PICK i \in DOMAIN sent : Perform(sent[i].tx) \/ UNCHANGED chainVars
      BY <1>3 DEF Mine
    <3> QED
      BY <3>1, PerformKeepsTypes DEF Positions, chainVars
  <2> QED
    BY <2>1, <2>2, <2>3 DEF Positions
<1>4. ASSUME UNCHANGED <<deployed, tokenBaseURI, implementation, config, sent, run, pc, first,
                         runs>>
      PROVE  Positions'
  <2>1. Len(Program)' = Len(Program)
    BY <1>4, SameLength
  <2> QED
    BY <1>4, <2>1 DEF Positions
<1>5. CASE OthersCall \/ MintGoesOn \/ TimePasses \/ UNCHANGED svars
  <2>1. UNCHANGED <<deployed, tokenBaseURI, implementation, config, sent, run, pc, first, runs>>
    BY <1>5 DEF OthersCall, MintGoesOn, TimePasses, scriptVars, svars, chainVars
  <2> QED
    BY <1>4, <2>1
<1> QED
  BY <1>1, <1>2, <1>3, <1>5 DEF ScriptsNext, ScriptStep

LEMMA PositionsInvariance == ScriptsSpec => []Positions
<1> QED
  BY PositionsInit, PositionsNext, ScriptsInvariance, PTL DEF ScriptsSpec

(***************************************************************************)
(* Types of the scripts: the statement a script is at is one of its        *)
(* program, or its end, and its transactions are of the pool.              *)
(***************************************************************************)
THEOREM ScriptsTyped == ScriptsSpec => []ScriptsTypeOK
<1>1. ScriptsInv /\ Positions => ScriptsTypeOK
  BY DEF ScriptsInv, Positions, ScriptsTypeOK, SentTx, Clocks
<1> QED
  BY <1>1, ScriptsInvariance, PositionsInvariance, PTL
-----------------------------------------------------------------------------
(***************************************************************************)
(* The invariant of the pool: what was sent is still acceptable when it is *)
(* mined, unless its start has passed or it adds a name again, and what    *)
(* was mined is there.                                                     *)
(***************************************************************************)
\* What was sent first is mined first.
MinedInOrder ==
    \A i, j \in DOMAIN sent :
      i < j /\ sent[i].status = "pending" => sent[j].status = "pending"

\* What the collection asks of terms beside a start in time.
SortedTerms(terms) ==
    /\ terms.endTime = 0 \/ terms.endTime > terms.startTime
    /\ terms.mintPerWallet > 0

\* A later transaction has given the group other terms.
Superseded(i) ==
    \E j \in DOMAIN sent :
      /\ i < j /\ sent[j].status = "success"
      /\ IsGroupCall(sent[j].tx) /\ sent[j].tx.name = sent[i].tx.name

DeployFits(i) == sent[i].tx.call = "deploy" => i = 1

CreatorsFit(i) ==
    sent[i].tx.call = "setCreators" =>
      /\ ValidSplit(sent[i].tx.split)
      /\ sent[i].status = "success" => creators # <<>>

AddFits(i) ==
    sent[i].tx.call = "addMintGroup" =>
      /\ sent[i].tx.name # ""
      /\ sent[i].status = "success" => GroupExists(sent[i].tx.name)

UpdateFits(i) == sent[i].tx.call = "updateMintGroup" => GroupExists(sent[i].tx.name)

TermsFit(i) ==
    IsGroupCall(sent[i].tx) =>
      /\ SortedTerms(sent[i].tx.terms)
      /\ sent[i].status = "success" /\ ~Superseded(i)
           => GroupOf(sent[i].tx.name).terms = sent[i].tx.terms

URIFits(i) ==
    sent[i].tx.call = "setBaseURI" /\ sent[i].status = "success" => tokenBaseURI = "script"

LateFits(i) ==
    sent[i].status = "reverted" =>
      /\ IsGroupCall(sent[i].tx)
      /\ sent[i].tx.terms.startTime <= now \/ Repeats(i)

EntryFits(i) ==
    /\ DeployFits(i) /\ CreatorsFit(i) /\ AddFits(i) /\ UpdateFits(i)
    /\ TermsFit(i) /\ URIFits(i) /\ LateFits(i)

\* A transaction that has added a group of that name.
Adds(i, name) ==
    /\ sent[i].tx.call = "addMintGroup" /\ sent[i].tx.name = name
    /\ sent[i].status = "success"

NamesWereSent ==
    \A name \in GroupNames : GroupExists(name) => \E i \in DOMAIN sent : Adds(i, name)

GroupsWereSent ==
    mintGroups # <<>> =>
      \E i \in DOMAIN sent : sent[i].tx.call = "addMintGroup" /\ sent[i].status = "success"

DeployedFits == deployed => 1 \in DOMAIN sent /\ sent[1].status # "pending"

PoolInv ==
    /\ SetupKept
    /\ MinedInOrder
    /\ \A i \in DOMAIN sent : EntryFits(i)
    /\ NamesWereSent
    /\ GroupsWereSent
    /\ DeployedFits

\* What was sent stays, and what succeeded.
EntriesKept ==
    /\ DOMAIN sent \subseteq DOMAIN sent'
    /\ \A i \in DOMAIN sent :
         /\ sent'[i].tx = sent[i].tx /\ sent'[i].by = sent[i].by /\ sent'[i].at = sent[i].at
         /\ sent[i].status = "success" => sent'[i].status = "success"

\* A name that was added before stays so, and what added it.
LEMMA RepeatsKept ==
  ASSUME EntriesKept, DOMAIN sent = 1 .. Len(sent), Len(sent) \in Nat, NEW i \in DOMAIN sent
  PROVE  Repeats(i) => Repeats(i)'
<1> SUFFICES ASSUME Repeats(i) PROVE Repeats(i)'
  OBVIOUS
<1>1. PICK j \in 1 .. i - 1 : Adds(j, sent[i].tx.name)
  BY DEF Repeats, Adds
<1>2. j \in DOMAIN sent
  OBVIOUS
<1>3. /\ sent'[i].tx = sent[i].tx /\ sent'[j].tx = sent[j].tx /\ sent'[j].status = "success"
  BY <1>1, <1>2 DEF EntriesKept, Adds
<1> QED
  BY <1>1, <1>3 DEF Repeats, Adds

LEMMA AddsKept ==
  ASSUME EntriesKept, NEW name, \E i \in DOMAIN sent : Adds(i, name)
  PROVE  \E i \in DOMAIN sent' : Adds(i, name)'
  BY DEF EntriesKept, Adds

\* A group that exists is in mintGroups.
LEMMA GroupIsThere ==
  ASSUME Inv, NEW name \in GroupNames, GroupExists(name)
  PROVE  groupIndexByName[name] \in DOMAIN mintGroups
  BY DEF Inv, Sound, IndexFits, Storage, TypeOK, StorageType, GroupExists

LEMMA GroupIsNamed ==
  ASSUME Inv, NEW name \in GroupNames, GroupExists(name)
  PROVE  mintGroups[groupIndexByName[name]].name = name
  BY DEF Inv, Sound, IndexFits, Storage, TypeOK, StorageType, GroupExists

\* The parts of a transaction, by its call.
LEMMA TransactionParts ==
  ASSUME NEW tx \in Transaction
  PROVE  /\ tx.call \in {"deploy", "setBaseURI", "upgradeTo", "setCreators", "addMintGroup",
                         "updateMintGroup"}
         /\ tx.call = "setCreators" => tx.split \in CreatorSplits
         /\ IsGroupCall(tx) =>
              /\ tx.name \in GroupNames /\ tx.terms \in GroupTerms
              /\ tx.terms.startTime \in Nat
<1>1. IsGroupCall(tx) => tx.name \in GroupNames /\ tx.terms \in GroupTerms
  BY DEF Transaction, IsGroupCall
<1>2. GroupTerms \subseteq Terms
  BY SericaAssumption
<1> QED
  BY <1>1, <1>2 DEF Transaction, Terms

LEMMA PoolInit == ScriptsInit => PoolInv
<1> SUFFICES ASSUME ScriptsInit PROVE PoolInv
  OBVIOUS
<1>1. sent = <<>> /\ frames = <<>> /\ deployed = FALSE /\ mintGroups = <<>> /\ OperatorAlone
  BY DEF ScriptsInit, Init, OperatorAlone
<1>2. \A name \in GroupNames : ~GroupExists(name)
  BY DEF ScriptsInit, Init, GroupExists
<1> QED
  BY <1>1, <1>2 DEF PoolInv, SetupKept, MinedInOrder, NamesWereSent, GroupsWereSent, DeployedFits

\* The pool and the operator's setup stay as they are, while time may pass.
LEMMA PoolSame ==
  ASSUME Inv, ScriptsInv, PoolInv, SetupKept', Setup(Storage)' = Setup(Storage),
         UNCHANGED <<sent, deployed, tokenBaseURI>>, now' = now \/ now' = now + 1
  PROVE  PoolInv'
<1>1. /\ creators' = creators /\ groupIndexByName' = groupIndexByName
      /\ DOMAIN mintGroups' = DOMAIN mintGroups
      /\ \A i \in DOMAIN mintGroups : mintGroups'[i].terms = mintGroups[i].terms
  BY SameSetup
<1>2. now \in Nat
  BY DEF Inv, TypeOK
<1>3. ASSUME NEW i \in DOMAIN sent PROVE EntryFits(i)'
  <2>1. EntryFits(i) /\ sent[i].tx \in Transaction
    BY SentFields DEF PoolInv, ScriptsInv
  <2>2. DeployFits(i)' /\ CreatorsFit(i)' /\ URIFits(i)'
    BY <1>1, <2>1 DEF EntryFits, DeployFits, CreatorsFit, URIFits
  <2>3. AddFits(i)' /\ UpdateFits(i)'
    BY <1>1, <2>1 DEF EntryFits, AddFits, UpdateFits, GroupExists
  <2>4. LateFits(i)'
    BY <1>2, <2>1, TransactionParts DEF EntryFits, LateFits, Repeats
  <2>5. TermsFit(i)'
    <3>1. Superseded(i)' <=> Superseded(i)
      BY DEF Superseded
    <3>2. ASSUME IsGroupCall(sent[i].tx), sent[i].status = "success"
          PROVE  GroupOf(sent[i].tx.name).terms' = GroupOf(sent[i].tx.name).terms
      <4>1. sent[i].tx.name \in GroupNames /\ GroupExists(sent[i].tx.name)
        BY <2>1, <3>2, TransactionParts DEF EntryFits, AddFits, UpdateFits, IsGroupCall
      <4>2. groupIndexByName[sent[i].tx.name] \in DOMAIN mintGroups
        BY <4>1, GroupIsThere
      <4> QED
        BY <1>1, <4>2 DEF GroupOf
    <3>3. TermsFit(i)
      BY <2>1 DEF EntryFits
    <3> QED
      BY <3>1, <3>2, <3>3 DEF TermsFit
  <2> QED
    BY <2>2, <2>3, <2>4, <2>5 DEF EntryFits
<1>4. MinedInOrder' /\ NamesWereSent' /\ DeployedFits'
  BY <1>1 DEF PoolInv, MinedInOrder, NamesWereSent, Adds, GroupExists, DeployedFits
<1>5. GroupsWereSent'
  <2>1. mintGroups' # <<>> => mintGroups # <<>>
    <3>1. mintGroups \in Seq(MintGroup)
      BY DEF Inv, TypeOK, StorageType, Storage
    <3> QED
      BY <1>1, <3>1
  <2> QED
    BY <2>1 DEF PoolInv, GroupsWereSent
<1> QED
  BY <1>3, <1>4, <1>5 DEF PoolInv

\* What the node takes fits what is in the pool.
LEMMA PoolSubmit ==
  ASSUME Inv, ScriptsInv, PoolInv, At("send"), Submit(Program[pc].tx),
         UNCHANGED <<chainVars, config>>,
         SendsCall(pc, "deploy") => sent = <<>>
  PROVE  PoolInv'
<1>a. PICK tx, n : tx = Program[pc].tx /\ n = Len(sent) + 1
  OBVIOUS
<1>1. /\ Len(sent) \in Nat /\ DOMAIN sent = 1 .. Len(sent) /\ DOMAIN sent' = 1 .. n
      /\ \A i \in DOMAIN sent : sent'[i] = sent[i]
      /\ sent'[n].tx = tx /\ sent'[n].status = "pending" /\ sent'[n].by = run.script
      /\ tx \in Transaction
  BY <1>a, SubmitAppends DEF SentTx
<1>2. UNCHANGED <<vars, deployed, tokenBaseURI>> /\ Program[pc].op = "send"
  BY DEF chainVars, At
<1>3. n \in Nat /\ DOMAIN sent' = DOMAIN sent \cup {n} /\ \A i \in DOMAIN sent : i < n
  BY <1>a, <1>1
<1>k. EntriesKept
  BY <1>1, <1>3 DEF EntriesKept
<1>4. ASSUME NEW i \in DOMAIN sent PROVE EntryFits(i)'
  <2>1. EntryFits(i) /\ sent'[i] = sent[i]
    BY <1>1 DEF PoolInv
  <2>2. Superseded(i)' <=> Superseded(i)
    BY <1>1, <1>3, <2>1 DEF Superseded
  <2>3. /\ UNCHANGED <<creators, groupIndexByName, mintGroups, now, tokenBaseURI>>
    BY <1>2 DEF vars, saleVars
  <2>4. DeployFits(i)' /\ CreatorsFit(i)' /\ AddFits(i)' /\ UpdateFits(i)'
    BY <2>1, <2>3 DEF EntryFits, DeployFits, CreatorsFit, AddFits, UpdateFits, GroupExists
  <2>5. TermsFit(i)' /\ URIFits(i)'
    BY <2>1, <2>2, <2>3 DEF EntryFits, TermsFit, URIFits, GroupOf
  <2>6. LateFits(i)'
    <3>1. Repeats(i) => Repeats(i)'
      BY <1>1, <1>k, RepeatsKept
    <3> QED
      BY <2>1, <2>3, <3>1 DEF EntryFits, LateFits
  <2> QED
    BY <2>4, <2>5, <2>6 DEF EntryFits
<1>5. EntryFits(n)'
  <2>1. PICK time \in EstimateTimes : Accepts(tx, time)
    BY <1>a DEF Submit, Estimates
  <2>2. UNCHANGED <<groupIndexByName>>
    BY <1>2 DEF vars, saleVars
  <2>3. DeployFits(n)'
    BY <1>a, <1>1, <1>2 DEF DeployFits, SendsCall
  <2>4. CreatorsFit(n)'
    BY <1>1, <2>1 DEF CreatorsFit, Accepts
  <2>5. AddFits(n)'
    BY <1>1, <2>1, <2>2 DEF AddFits, Accepts, GroupExists
  <2>6. UpdateFits(n)'
    BY <1>1, <2>1, <2>2 DEF UpdateFits, Accepts, GroupExists
  <2>7. TermsFit(n)'
    BY <1>1, <2>1 DEF TermsFit, Accepts, ValidTermsAt, SortedTerms, IsGroupCall
  <2>8. URIFits(n)' /\ LateFits(n)'
    BY <1>1 DEF URIFits, LateFits
  <2> QED
    BY <2>3, <2>4, <2>5, <2>6, <2>7, <2>8 DEF EntryFits
<1>6. MinedInOrder'
  <2>1. ASSUME NEW i \in DOMAIN sent', NEW j \in DOMAIN sent', i < j,
               sent'[i].status = "pending"
        PROVE  sent'[j].status = "pending"
    <3>1. CASE j = n
      BY <1>1, <3>1
    <3>2. CASE j # n
      <4>1. j \in DOMAIN sent /\ i \in DOMAIN sent
        BY <1>a, <1>1, <2>1, <3>2
      <4>2. sent'[i] = sent[i] /\ sent'[j] = sent[j]
        BY <1>1, <4>1
      <4> QED
        BY <2>1, <4>1, <4>2 DEF PoolInv, MinedInOrder
    <3> QED
      BY <3>1, <3>2
  <2> QED
    BY <2>1 DEF MinedInOrder
<1>7. NamesWereSent'
  <2>1. groupIndexByName' = groupIndexByName
    BY <1>2 DEF vars, saleVars
  <2> QED
    BY <1>k, <2>1, AddsKept DEF PoolInv, NamesWereSent, GroupExists
<1>8. GroupsWereSent'
  <2>1. mintGroups' = mintGroups
    BY <1>2 DEF vars, saleVars
  <2> QED
    BY <1>1, <1>3, <2>1 DEF PoolInv, GroupsWereSent
<1>9. DeployedFits'
  BY <1>1, <1>2, <1>3 DEF PoolInv, DeployedFits
<1>10. SetupKept'
  <2>1. UNCHANGED <<members, creators, groupIndexByName, mintGroups, frames>>
    BY <1>2 DEF vars, saleVars
  <2>2. Setup(Storage)' = Setup(Storage)
    BY <2>1, SetupOfStorage, SetupOfStoragePrime
  <2>3. \A i \in DOMAIN frames' : Setup(frames'[i].saved) = Setup(Storage)
    BY <2>1 DEF PoolInv, SetupKept
  <2> QED
    BY <2>1, <2>2, <2>3 DEF PoolInv, SetupKept, OperatorAlone
<1> QED
  BY <1>3, <1>4, <1>5, <1>6, <1>7, <1>8, <1>9, <1>10 DEF PoolInv

\* What a transaction changes of what the invariant speaks of.
GroupEffects(tx) ==
    \A name \in GroupNames :
      /\ GroupExists(name)' <=>
           GroupExists(name) \/ (tx.call = "addMintGroup" /\ tx.name = name)
      /\ GroupExists(name) /\ ~(IsGroupCall(tx) /\ tx.name = name)
           => GroupOf(name).terms' = GroupOf(name).terms

Effects(tx) ==
    /\ UNCHANGED <<members, frames, now>>
    /\ creators # <<>> \/ tx.call = "setCreators" => creators' # <<>>
    /\ GroupEffects(tx)
    /\ IsGroupCall(tx) => GroupOf(tx.name).terms' = tx.terms
    /\ tokenBaseURI = "script" \/ tx.call = "setBaseURI" => tokenBaseURI' = "script"
    /\ mintGroups' # <<>> => mintGroups # <<>> \/ tx.call = "addMintGroup"
    /\ deployed' => deployed \/ tx.call = "deploy"

LEMMA QuietEffects ==
  ASSUME UNCHANGED vars, NEW tx, tx.call \in {"deploy", "setBaseURI", "upgradeTo"},
         tokenBaseURI = "script" \/ tx.call = "setBaseURI" => tokenBaseURI' = "script",
         deployed' => deployed \/ tx.call = "deploy"
  PROVE  Effects(tx)
<1>1. UNCHANGED <<members, frames, now, creators, groupIndexByName, mintGroups>>
  BY DEF vars, saleVars
<1>2. ~IsGroupCall(tx) /\ tx.call \notin {"setCreators", "addMintGroup"}
  BY DEF IsGroupCall
<1>4. UNCHANGED <<members, frames, now>>
  BY <1>1
<1>5. /\ creators # <<>> \/ tx.call = "setCreators" => creators' # <<>>
      /\ mintGroups' # <<>> => mintGroups # <<>> \/ tx.call = "addMintGroup"
  BY <1>1, <1>2
<1>6. GroupEffects(tx)
  BY <1>1, <1>2 DEF GroupEffects, GroupExists, GroupOf
<1>7. /\ IsGroupCall(tx) => GroupOf(tx.name).terms' = tx.terms
      /\ tokenBaseURI = "script" \/ tx.call = "setBaseURI" => tokenBaseURI' = "script"
  BY <1>1, <1>2
<1>8. deployed' => deployed \/ tx.call = "deploy"
  BY Zenon
<1> QED
  BY <1>4, <1>5, <1>6, <1>7, <1>8, Zenon DEF Effects

LEMMA CreatorsEffects ==
  ASSUME NEW tx, tx.call = "setCreators", SetCreators(Deployer, tx.split),
         UNCHANGED <<deployed, tokenBaseURI>>
  PROVE  Effects(tx)
<1>1. UNCHANGED <<members, frames, now, groupIndexByName, mintGroups>> /\ creators' # <<>>
  BY DEF SetCreators, ValidSplit, saleVars
<1>2. ~IsGroupCall(tx) /\ tx.call \notin {"addMintGroup", "setBaseURI"}
  BY DEF IsGroupCall
<1>4. UNCHANGED <<members, frames, now>>
  BY <1>1
<1>5. /\ creators # <<>> \/ tx.call = "setCreators" => creators' # <<>>
      /\ mintGroups' # <<>> => mintGroups # <<>> \/ tx.call = "addMintGroup"
  BY <1>1, <1>2
<1>6. GroupEffects(tx)
  BY <1>1, <1>2 DEF GroupEffects, GroupExists, GroupOf
<1>7. /\ IsGroupCall(tx) => GroupOf(tx.name).terms' = tx.terms
      /\ tokenBaseURI = "script" \/ tx.call = "setBaseURI" => tokenBaseURI' = "script"
  BY <1>1, <1>2
<1>8. deployed' => deployed \/ tx.call = "deploy"
  BY Zenon
<1> QED
  BY <1>4, <1>5, <1>6, <1>7, <1>8, Zenon DEF Effects

LEMMA AddEffects ==
  ASSUME Inv, NEW tx \in Transaction, tx.call = "addMintGroup",
         AddMintGroup(Deployer, tx.name, tx.terms), UNCHANGED <<deployed, tokenBaseURI>>
  PROVE  Effects(tx)
<1> DEFINE group == [name |-> tx.name, terms |-> tx.terms, mintedInGroup |-> 0,
                     isActive |-> TRUE]
           n == Len(mintGroups)
<1>1. /\ UNCHANGED <<members, frames, now, creators>> /\ ~GroupExists(tx.name)
      /\ mintGroups' = Append(mintGroups, group)
      /\ groupIndexByName' = [groupIndexByName EXCEPT ![tx.name] = Len(mintGroups')]
  BY DEF AddMintGroup
<1>2. /\ mintGroups \in Seq(MintGroup) /\ groupIndexByName \in [GroupNames -> Nat]
      /\ tx.name \in GroupNames
  BY TransactionParts DEF Inv, TypeOK, StorageType, Storage, IsGroupCall
<1>3. group.terms = tx.terms
  OBVIOUS
<1> HIDE DEF group
<1>4. /\ n \in Nat /\ DOMAIN mintGroups = 1 .. n /\ Len(mintGroups') = n + 1
      /\ mintGroups'[n + 1] = group /\ \A i \in 1 .. n : mintGroups'[i] = mintGroups[i]
  BY <1>1, <1>2
<1>5. /\ groupIndexByName'[tx.name] = n + 1
      /\ \A name \in GroupNames : name # tx.name =>
           groupIndexByName'[name] = groupIndexByName[name]
  BY <1>1, <1>2, <1>4
<1> HIDE DEF n
<1>6. \A name \in GroupNames : GroupExists(name)' <=> GroupExists(name) \/ tx.name = name
  BY <1>4, <1>5 DEF GroupExists
<1>7. GroupOf(tx.name).terms' = tx.terms
  BY <1>3, <1>4, <1>5 DEF GroupOf
<1>8. ASSUME NEW name \in GroupNames, GroupExists(name), name # tx.name
      PROVE  GroupOf(name).terms' = GroupOf(name).terms
  <2>1. groupIndexByName[name] \in 1 .. n
    BY <1>4, <1>8, GroupIsThere
  <2> QED
    BY <1>4, <1>5, <1>8, <2>1 DEF GroupOf
<1>9. tx.call # "setCreators" /\ tx.call # "setBaseURI" /\ IsGroupCall(tx)
  BY DEF IsGroupCall
<1>10. UNCHANGED <<members, frames, now>>
  BY <1>1
<1>11. /\ creators # <<>> \/ tx.call = "setCreators" => creators' # <<>>
       /\ mintGroups' # <<>> => mintGroups # <<>> \/ tx.call = "addMintGroup"
  BY <1>1, <1>6, <1>7, <1>8, <1>9
<1>12. GroupEffects(tx)
  BY <1>1, <1>6, <1>7, <1>8, <1>9 DEF GroupEffects, GroupExists, GroupOf
<1>13. /\ IsGroupCall(tx) => GroupOf(tx.name).terms' = tx.terms
       /\ tokenBaseURI = "script" \/ tx.call = "setBaseURI" => tokenBaseURI' = "script"
  BY <1>1, <1>6, <1>7, <1>8, <1>9
<1>14. deployed' => deployed \/ tx.call = "deploy"
  BY Zenon
<1> QED
  BY <1>10, <1>11, <1>12, <1>13, <1>14, Zenon DEF Effects

LEMMA UpdateEffects ==
  ASSUME Inv, NEW tx \in Transaction, tx.call = "updateMintGroup",
         UpdateMintGroup(Deployer, tx.name, tx.terms), UNCHANGED <<deployed, tokenBaseURI>>
  PROVE  Effects(tx)
<1> DEFINE k == groupIndexByName[tx.name]
<1>1. /\ UNCHANGED <<members, frames, now, creators, groupIndexByName>>
      /\ GroupExists(tx.name) /\ mintGroups' = [mintGroups EXCEPT ![k].terms = tx.terms]
  BY DEF UpdateMintGroup
<1>2. mintGroups \in Seq(MintGroup) /\ tx.name \in GroupNames
  BY TransactionParts DEF Inv, TypeOK, StorageType, Storage, IsGroupCall
<1>3. k \in DOMAIN mintGroups
  BY <1>1, <1>2, GroupIsThere
<1>4. mintGroups[k] \in MintGroup
  BY <1>2, <1>3, ElementOfSeq, LenProperties
<1>5. /\ mintGroups'[k].terms = tx.terms /\ DOMAIN mintGroups' = DOMAIN mintGroups
      /\ \A i \in DOMAIN mintGroups : i # k => mintGroups'[i] = mintGroups[i]
  BY <1>1, <1>3, <1>4 DEF MintGroup
<1>6. mintGroups # <<>>
  BY <1>3
<1>7. \A name \in GroupNames : GroupExists(name)' <=> GroupExists(name)
  BY <1>1 DEF GroupExists
<1>8. GroupOf(tx.name).terms' = tx.terms
  BY <1>1, <1>5 DEF GroupOf
<1>9. ASSUME NEW name \in GroupNames, GroupExists(name), name # tx.name
      PROVE  GroupOf(name).terms' = GroupOf(name).terms
  <2>1. groupIndexByName[name] \in DOMAIN mintGroups
    BY <1>9, GroupIsThere
  <2>2. mintGroups[groupIndexByName[name]].name = name /\ mintGroups[k].name = tx.name
    BY <1>1, <1>2, <1>9, GroupIsNamed
  <2> QED
    BY <1>1, <1>5, <1>9, <2>1, <2>2 DEF GroupOf
<1>10. tx.call \notin {"setCreators", "setBaseURI", "addMintGroup"} /\ IsGroupCall(tx)
  BY DEF IsGroupCall
<1>11. UNCHANGED <<members, frames, now>>
  BY <1>1
<1>12. /\ creators # <<>> \/ tx.call = "setCreators" => creators' # <<>>
       /\ mintGroups' # <<>> => mintGroups # <<>> \/ tx.call = "addMintGroup"
  BY <1>1, <1>6, <1>7, <1>8, <1>9, <1>10
<1>13. GroupEffects(tx)
  BY <1>1, <1>6, <1>7, <1>8, <1>9, <1>10 DEF GroupEffects, GroupExists, GroupOf
<1>14. /\ IsGroupCall(tx) => GroupOf(tx.name).terms' = tx.terms
       /\ tokenBaseURI = "script" \/ tx.call = "setBaseURI" => tokenBaseURI' = "script"
  BY <1>1, <1>6, <1>7, <1>8, <1>9, <1>10
<1>15. deployed' => deployed \/ tx.call = "deploy"
  BY Zenon
<1> QED
  BY <1>11, <1>12, <1>13, <1>14, <1>15, Zenon DEF Effects

LEMMA PerformEffects ==
  ASSUME Inv, NEW tx \in Transaction, Perform(tx)
  PROVE  Effects(tx)
<1>1. ASSUME tx.call = "deploy", UNCHANGED <<vars, tokenBaseURI, implementation>>
      PROVE  Effects(tx)
  BY <1>1, QuietEffects
<1>2. ASSUME tx.call = "setBaseURI", tokenBaseURI' = "script",
             UNCHANGED <<vars, deployed, implementation>>
      PROVE  Effects(tx)
  BY <1>2, QuietEffects
<1>3. ASSUME tx.call = "upgradeTo", UNCHANGED <<vars, deployed, tokenBaseURI>>
      PROVE  Effects(tx)
  BY <1>3, QuietEffects
<1>4. ASSUME UNCHANGED <<deployed, tokenBaseURI, implementation>>,
             \/ tx.call = "setCreators" /\ SetCreators(Deployer, tx.split)
             \/ tx.call = "addMintGroup" /\ AddMintGroup(Deployer, tx.name, tx.terms)
             \/ tx.call = "updateMintGroup" /\ UpdateMintGroup(Deployer, tx.name, tx.terms)
      PROVE  Effects(tx)
  <2>1. UNCHANGED <<deployed, tokenBaseURI>>
    BY <1>4
  <2> QED
    BY <1>4, <2>1, CreatorsEffects, AddEffects, UpdateEffects, Zenon
<1> QED
  BY <1>1, <1>2, <1>3, <1>4, PerformCases, Zenon

\* A transaction that is reverted came too late, or adds a name again.
LEMMA RevertIsLate ==
  ASSUME Inv, ScriptsInv, PoolInv, NEW i \in DOMAIN sent, sent[i].status = "pending",
         ~Accepts(sent[i].tx, now)
  PROVE  IsGroupCall(sent[i].tx) /\ (sent[i].tx.terms.startTime <= now \/ Repeats(i))
<1>1. EntryFits(i) /\ sent[i].tx \in Transaction
  BY SentFields DEF PoolInv, ScriptsInv
<1>2. HasRole(ADMIN_ROLE, Deployer) /\ HasRole(DEFAULT_ADMIN_ROLE, Deployer)
  BY SericaAssumption, AccessControlAssumption DEF PoolInv, SetupKept, OperatorAlone, HasRole
<1>3. now \in Nat
  BY DEF Inv, TypeOK
<1>4. sent[i].tx.call # "deploy"
  <2>1. ASSUME sent[i].tx.call = "deploy" PROVE FALSE
    <3>1. i = 1 /\ deployed
      BY <1>1, <2>1 DEF EntryFits, DeployFits, Accepts
    <3> QED
      BY <3>1 DEF PoolInv, DeployedFits
  <2> QED
    BY <2>1
<1>5. sent[i].tx.call \notin {"setCreators", "setBaseURI", "upgradeTo"}
  BY <1>1, <1>2 DEF EntryFits, CreatorsFit, Accepts
<1>6. CASE IsGroupCall(sent[i].tx)
  <2>1. CASE ~ValidTermsAt(sent[i].tx.terms, now)
    <3>1. SortedTerms(sent[i].tx.terms) /\ sent[i].tx.terms.startTime \in Nat
      BY <1>1, <1>6, TransactionParts DEF EntryFits, TermsFit
    <3> QED
      BY <1>3, <1>6, <2>1, <3>1 DEF ValidTermsAt, SortedTerms
  <2>2. CASE ValidTermsAt(sent[i].tx.terms, now)
    <3>1. sent[i].tx.call = "addMintGroup" /\ GroupExists(sent[i].tx.name)
      BY <1>1, <1>2, <1>6, <2>2 DEF EntryFits, AddFits, UpdateFits, Accepts, IsGroupCall
    <3>2. sent[i].tx.name \in GroupNames
      BY <1>1, <1>6, TransactionParts
    <3>3. PICK j \in DOMAIN sent : Adds(j, sent[i].tx.name)
      BY <3>1, <3>2 DEF PoolInv, NamesWereSent
    <3>4. j < i
      <4>1. ~(i < j) /\ j # i
        BY <3>3 DEF PoolInv, MinedInOrder, Adds
      <4> QED
        BY <4>1 DEF ScriptsInv
    <3>5. j \in 1 .. i - 1
      BY <3>4 DEF ScriptsInv
    <3> QED
      BY <1>6, <3>1, <3>3, <3>5 DEF Repeats, Adds
  <2> QED
    BY <2>1, <2>2
<1> QED
  BY <1>1, <1>4, <1>5, <1>6, TransactionParts DEF IsGroupCall

\* What a block does to the pool: the first that is pending is mined.
Mined(i, status) ==
    /\ sent[i].status = "pending" /\ sent'[i].status = status
    /\ DOMAIN sent' = DOMAIN sent
    /\ \A j \in DOMAIN sent :
         /\ sent'[j].tx = sent[j].tx /\ sent'[j].by = sent[j].by /\ sent'[j].at = sent[j].at
         /\ j # i => sent'[j].status = sent[j].status
         /\ (j < i => sent[j].status # "pending") /\ (i < j => sent[j].status = "pending")

LEMMA MineCases ==
  ASSUME ScriptsInv, PoolInv, Mine
  PROVE  \E i \in DOMAIN sent, tx \in Transaction :
           /\ tx = sent[i].tx
           /\ \/ Mined(i, "success") /\ Perform(tx)
              \/ Mined(i, "reverted") /\ ~Accepts(sent[i].tx, now) /\ UNCHANGED chainVars
<1>1. PICK i \in DOMAIN sent :
        /\ IsNext(i)
        /\ \/ /\ Accepts(sent[i].tx, now) /\ Perform(sent[i].tx)
              /\ sent' = [sent EXCEPT ![i].status = "success"]
           \/ /\ ~Accepts(sent[i].tx, now) /\ UNCHANGED chainVars
              /\ sent' = [sent EXCEPT ![i].status = "reverted"]
  BY DEF Mine
<1>2. sent \in Seq(SentTx) /\ DOMAIN sent = 1 .. Len(sent) /\ Len(sent) \in Nat
  BY DEF ScriptsInv
<1>3. sent[i] \in SentTx
  BY <1>2, SentFields
<1>4. ASSUME NEW status, sent' = [sent EXCEPT ![i].status = status]
      PROVE  Mined(i, status)
  <2>1. /\ DOMAIN sent' = DOMAIN sent /\ sent'[i] = [sent[i] EXCEPT !.status = status]
        /\ \A j \in DOMAIN sent : j # i => sent'[j] = sent[j]
    BY <1>4
  <2>2. /\ sent'[i].status = status /\ sent'[i].tx = sent[i].tx
        /\ sent'[i].by = sent[i].by /\ sent'[i].at = sent[i].at
    BY <1>3, <2>1 DEF SentTx
  <2>3. sent[i].status = "pending" /\ \A j \in DOMAIN sent : j < i => sent[j].status # "pending"
    BY <1>1, <1>2 DEF IsNext
  <2>4. \A j \in DOMAIN sent : i < j => sent[j].status = "pending"
    BY <2>3 DEF PoolInv, MinedInOrder
  <2> QED
    BY <2>1, <2>2, <2>3, <2>4 DEF Mined
<1>5. PICK tx \in Transaction : tx = sent[i].tx
  BY <1>2, SentFields
<1>6. Perform(sent[i].tx) => Perform(tx)
  BY <1>5
<1> QED
  BY <1>1, <1>4, <1>5, <1>6, Zenon

LEMMA MinedPool ==
  ASSUME ScriptsInv, PoolInv, NEW i \in DOMAIN sent, NEW status \in {"success", "reverted"},
         Mined(i, status)
  PROVE  MinedInOrder' /\ EntriesKept
<1>1. DOMAIN sent = 1 .. Len(sent) /\ Len(sent) \in Nat
  BY DEF ScriptsInv
<1>2. EntriesKept
  BY DEF Mined, EntriesKept
<1>3. ASSUME NEW j \in DOMAIN sent, NEW k \in DOMAIN sent, j < k,
             sent'[j].status = "pending"
      PROVE  sent'[k].status = "pending"
  <2>1. j # i /\ sent[j].status = "pending"
    BY <1>3 DEF Mined
  <2>2. ~(j < i)
    BY <2>1 DEF Mined
  <2>3. i < k /\ k # i
    BY <1>1, <1>3, <2>1, <2>2
  <2> QED
    BY <2>3 DEF Mined
<1>4. DOMAIN sent' = DOMAIN sent
  BY DEF Mined
<1> QED
  BY <1>2, <1>3, <1>4 DEF MinedInOrder

LEMMA MinedEntries ==
  ASSUME Inv, ScriptsInv, PoolInv, NEW i \in DOMAIN sent, Mined(i, "success"),
         NEW tx \in Transaction, tx = sent[i].tx, Effects(tx), NEW j \in DOMAIN sent
  PROVE  EntryFits(j)'
<1>1. PICK t \in Transaction : t = sent[j].tx
  BY SentFields DEF ScriptsInv
<1>2. DOMAIN sent = 1 .. Len(sent) /\ Len(sent) \in Nat
  BY DEF ScriptsInv
<1>3. /\ sent'[j].tx = t /\ sent'[i].tx = tx /\ i \in DOMAIN sent'
      /\ sent[i].status = "pending" /\ sent'[i].status = "success"
      /\ j # i => sent'[j].status = sent[j].status
      /\ j = i => t = tx
  BY <1>1 DEF Mined
<1>4. EntryFits(j)
  BY DEF PoolInv
<1>5. DeployFits(j)'
  BY <1>1, <1>3, <1>4 DEF EntryFits, DeployFits
<1>6. CreatorsFit(j)'
  BY <1>1, <1>3, <1>4 DEF EntryFits, CreatorsFit, Effects
<1>7. ASSUME IsGroupCall(t)
      PROVE  /\ t.name \in GroupNames
             /\ GroupExists(t.name)' <=>
                  GroupExists(t.name) \/ (tx.call = "addMintGroup" /\ tx.name = t.name)
  BY <1>7, TransactionParts DEF Effects, GroupEffects
<1>8. AddFits(j)'
  <2>1. ASSUME t.call = "addMintGroup"
        PROVE  /\ t.name # ""
               /\ sent'[j].status = "success" => GroupExists(t.name)'
    <3>1. /\ t.name # ""
          /\ sent[j].status = "success" => GroupExists(t.name)
      BY <1>1, <1>4, <2>1 DEF EntryFits, AddFits
    <3>2. IsGroupCall(t)
      BY <2>1 DEF IsGroupCall
    <3> QED
      BY <1>3, <1>7, <2>1, <3>1, <3>2
  <2> QED
    BY <1>3, <2>1 DEF AddFits, GroupExists
<1>9. UpdateFits(j)'
  <2>1. ASSUME t.call = "updateMintGroup" PROVE GroupExists(t.name)'
    <3>1. GroupExists(t.name) /\ IsGroupCall(t)
      BY <1>1, <1>4, <2>1 DEF EntryFits, UpdateFits, IsGroupCall
    <3> QED
      BY <1>7, <3>1
  <2> QED
    BY <1>3, <2>1 DEF UpdateFits, GroupExists
<1>10. TermsFit(j)'
  <2>1. ASSUME IsGroupCall(t), sent'[j].status = "success", ~Superseded(j)'
        PROVE  GroupOf(t.name).terms' = t.terms
    <3>1. CASE j = i
      BY <1>3, <2>1, <3>1 DEF Effects
    <3>2. CASE j # i
      <4>1. sent[j].status = "success" /\ j < i
        BY <1>2, <1>3, <2>1, <3>2 DEF Mined
      <4>2. ~(IsGroupCall(tx) /\ tx.name = t.name)
        BY <1>3, <2>1, <4>1 DEF Superseded, IsGroupCall
      <4>3. ~Superseded(j)
        <5>1. ASSUME NEW k \in DOMAIN sent, sent[k].status = "success"
              PROVE  k \in DOMAIN sent' /\ sent'[k].status = "success" /\ sent'[k].tx = sent[k].tx
          BY <1>3, <5>1 DEF Mined
        <5> QED
          BY <1>1, <1>3, <2>1, <5>1 DEF Superseded, IsGroupCall
      <4>4. t.name \in GroupNames /\ GroupExists(t.name)
        BY <1>1, <1>4, <1>7, <2>1, <4>1 DEF EntryFits, AddFits, UpdateFits, IsGroupCall
      <4>5. GroupOf(t.name).terms = t.terms
        BY <1>1, <1>4, <2>1, <4>1, <4>3 DEF EntryFits, TermsFit
      <4>6. GroupOf(t.name).terms' = GroupOf(t.name).terms
        BY <4>2, <4>4 DEF Effects, GroupEffects
      <4> QED
        BY <4>5, <4>6
    <3> QED
      BY <3>1, <3>2
  <2>2. IsGroupCall(t) => SortedTerms(t.terms)
    BY <1>1, <1>4 DEF EntryFits, TermsFit
  <2> QED
    BY <1>3, <2>1, <2>2 DEF TermsFit, IsGroupCall, GroupOf, SortedTerms
<1>11. URIFits(j)'
  BY <1>1, <1>3, <1>4 DEF EntryFits, URIFits, Effects
<1>12. LateFits(j)'
  <2>1. Repeats(j) => Repeats(j)'
    BY <1>2, MinedPool, RepeatsKept
  <2> QED
    BY <1>1, <1>3, <1>4, <2>1 DEF EntryFits, LateFits, IsGroupCall, Effects
<1> QED
  BY <1>5, <1>6, <1>8, <1>9, <1>10, <1>11, <1>12 DEF EntryFits

LEMMA RevertedEntries ==
  ASSUME Inv, ScriptsInv, PoolInv, NEW i \in DOMAIN sent, Mined(i, "reverted"),
         ~Accepts(sent[i].tx, now), UNCHANGED chainVars, NEW j \in DOMAIN sent
  PROVE  EntryFits(j)'
<1>1. EntryFits(j) /\ UNCHANGED <<creators, groupIndexByName, mintGroups, now, tokenBaseURI>>
  BY DEF PoolInv, chainVars, vars, saleVars
<1>2. /\ sent'[j].tx = sent[j].tx
      /\ sent[i].status = "pending" /\ sent'[i].status = "reverted"
      /\ j # i => sent'[j].status = sent[j].status
  BY DEF Mined
<1>3. DeployFits(j)' /\ CreatorsFit(j)' /\ URIFits(j)'
  BY <1>1, <1>2 DEF EntryFits, DeployFits, CreatorsFit, URIFits
<1>4. AddFits(j)' /\ UpdateFits(j)'
  BY <1>1, <1>2 DEF EntryFits, AddFits, UpdateFits, GroupExists
<1>5. LateFits(j)'
  <2>1. Repeats(j) => Repeats(j)'
    <3>1. DOMAIN sent = 1 .. Len(sent) /\ Len(sent) \in Nat
      BY DEF ScriptsInv
    <3> QED
      BY <3>1, MinedPool, RepeatsKept
  <2>2. CASE j = i
    <3>1. IsGroupCall(sent[i].tx) /\ (sent[i].tx.terms.startTime <= now \/ Repeats(i))
      BY <1>2, RevertIsLate
    <3> QED
      BY <1>1, <1>2, <2>1, <2>2, <3>1 DEF LateFits, IsGroupCall
  <2>3. CASE j # i
    BY <1>1, <1>2, <2>1, <2>3 DEF EntryFits, LateFits, IsGroupCall
  <2> QED
    BY <2>2, <2>3
<1>6. TermsFit(j)'
  <2>1. ASSUME NEW k \in DOMAIN sent, sent[k].status = "success"
        PROVE  k \in DOMAIN sent' /\ sent'[k].status = "success" /\ sent'[k].tx = sent[k].tx
    BY <1>2, <2>1 DEF Mined
  <2>2. Superseded(j) => Superseded(j)'
    BY <1>2, <2>1 DEF Superseded
  <2>3. sent'[j].status = "success" => sent[j].status = "success"
    BY <1>2
  <2>4. GroupOf(sent[j].tx.name).terms' = GroupOf(sent[j].tx.name).terms
    BY <1>1, <1>2 DEF GroupOf
  <2> QED
    BY <1>1, <1>2, <2>2, <2>3, <2>4 DEF EntryFits, TermsFit, IsGroupCall
<1> QED
  BY <1>3, <1>4, <1>5, <1>6 DEF EntryFits

LEMMA PoolMine ==
  ASSUME Inv, ScriptsInv, PoolInv, Mine
  PROVE  PoolInv'
<1>1. frames = <<>>
  BY DEF Mine, Idle
<1>2. PICK i \in DOMAIN sent, tx \in Transaction :
        /\ tx = sent[i].tx
        /\ \/ Mined(i, "success") /\ Perform(tx)
           \/ Mined(i, "reverted") /\ ~Accepts(sent[i].tx, now) /\ UNCHANGED chainVars
  BY MineCases
<1>3. tx = sent[i].tx /\ EntryFits(i)
  BY <1>2 DEF PoolInv
<1>4. MinedInOrder' /\ EntriesKept
  BY <1>2, MinedPool
<1>5. DOMAIN sent' = DOMAIN sent
  BY <1>2 DEF Mined
<1>6. CASE Mined(i, "success") /\ Perform(tx)
  <2>1. Effects(tx)
    BY <1>6, PerformEffects
  <2>2. \A j \in DOMAIN sent' : EntryFits(j)'
    BY <1>3, <1>5, <1>6, <2>1, MinedEntries
  <2>3. SetupKept'
    BY <1>1, <2>1 DEF Effects, PoolInv, SetupKept, OperatorAlone
  <2>4. GroupsWereSent'
    <3>1. ASSUME NEW k \in DOMAIN sent, sent[k].status = "success"
          PROVE  sent'[k].status = "success" /\ sent'[k].tx = sent[k].tx
      BY <1>6, <3>1 DEF Mined
    <3>2. sent'[i].status = "success" /\ sent'[i].tx = tx
      BY <1>3, <1>6 DEF Mined
    <3>3. mintGroups' # <<>> => mintGroups # <<>> \/ tx.call = "addMintGroup"
      BY <2>1 DEF Effects
    <3> QED
      BY <1>5, <3>1, <3>2, <3>3 DEF PoolInv, GroupsWereSent
  <2>5. DeployedFits'
    <3>1. deployed' => deployed \/ tx.call = "deploy"
      BY <2>1, Zenon DEF Effects
    <3>2. tx.call = "deploy" => i = 1
      BY <1>3 DEF EntryFits, DeployFits
    <3>3. \A k \in DOMAIN sent : sent[k].status # "pending" => sent'[k].status # "pending"
      BY <1>6 DEF Mined
    <3>4. sent'[i].status # "pending"
      BY <1>6 DEF Mined
    <3> QED
      BY <1>5, <3>1, <3>2, <3>3, <3>4 DEF PoolInv, DeployedFits
  <2>6. NamesWereSent'
    <3> SUFFICES ASSUME NEW name \in GroupNames, GroupExists(name)'
                 PROVE  \E j \in DOMAIN sent' : Adds(j, name)'
      BY DEF NamesWereSent
    <3>1. CASE GroupExists(name)
      BY <1>4, <3>1, AddsKept DEF PoolInv, NamesWereSent
    <3>2. CASE ~GroupExists(name)
      <4>1. tx.call = "addMintGroup" /\ tx.name = name
        BY <2>1, <3>2 DEF Effects, GroupEffects
      <4>2. sent'[i].status = "success" /\ sent'[i].tx = tx
        BY <1>3, <1>6 DEF Mined
      <4> QED
        BY <1>5, <4>1, <4>2 DEF Adds
    <3> QED
      BY <3>1, <3>2
  <2> QED
    BY <1>4, <2>2, <2>3, <2>4, <2>5, <2>6 DEF PoolInv
<1>7. CASE Mined(i, "reverted") /\ ~Accepts(sent[i].tx, now) /\ UNCHANGED chainVars
  <2>1. \A j \in DOMAIN sent' : EntryFits(j)'
    BY <1>5, <1>7, RevertedEntries
  <2>2. UNCHANGED <<members, frames, mintGroups, deployed>>
    BY <1>7 DEF chainVars, vars, saleVars
  <2>3. SetupKept'
    BY <1>1, <2>2 DEF PoolInv, SetupKept, OperatorAlone
  <2>4. ASSUME NEW k \in DOMAIN sent
        PROVE  /\ sent[k].status = "success" =>
                    sent'[k].status = "success" /\ sent'[k].tx = sent[k].tx
               /\ sent[k].status # "pending" => sent'[k].status # "pending"
    BY <1>7 DEF Mined
  <2>5. GroupsWereSent' /\ DeployedFits'
    BY <1>5, <2>2, <2>4 DEF PoolInv, GroupsWereSent, DeployedFits
  <2>6. NamesWereSent'
    <3>1. groupIndexByName' = groupIndexByName
      BY <1>7 DEF chainVars, vars, saleVars
    <3> QED
      BY <1>4, <3>1, AddsKept DEF PoolInv, NamesWereSent, GroupExists
  <2> QED
    BY <1>4, <2>1, <2>3, <2>5, <2>6 DEF PoolInv
<1> QED
  BY <1>2, <1>6, <1>7
-----------------------------------------------------------------------------
(***************************************************************************)
(* The invariant of the script that runs: what it has sent so far, and     *)
(* that what it is going to send fits that.                                *)
(***************************************************************************)
HasCreators == config # <<>> /\ config[1].creators # <<>>

DeployRuns ==
    Running /\ run.script \in DeployScripts =>
      /\ pc = 1 => sent = <<>>
      /\ sent # <<>> => sent[1].by = run.script

SetsCreators(i) == sent[i].tx.call = "setCreators"

CreatorsAreSent ==
    Running /\ run.script = "deploy-serica" /\ HasCreators /\ pc >= 4 =>
      \E j \in DOMAIN sent : SetsCreators(j)

CreatorsAreFirst ==
    sent # <<>> /\ sent[1].by = "deploy-serica" /\ HasCreators =>
      \A i \in DOMAIN sent : sent[i].tx.call = "addMintGroup" =>
        \E j \in DOMAIN sent : j < i /\ SetsCreators(j)

UpdateRuns ==
    run.script = "update-mint-group" /\ run.result \in {"running", "completed"} =>
      /\ pc <= 4 => Len(sent) = first
      /\ pc = 5 => Len(sent) = first + 1
      /\ pc >= 6 => Len(sent) = first + 2
      /\ pc >= 5 => /\ sent[first + 1].tx = UpdateMintGroup1
                    /\ clock.reads <= sent[first + 1].at + clock.ahead
      /\ pc >= 6 => sent[first + 2].tx = UpdateMintGroup2
      /\ pc >= 7 => sent[first + 1].status = "success"
      /\ pc >= 8 => sent[first + 2].status = "success"
      /\ run.result = "completed" => pc = 10

URIRuns ==
    run.script = "update-base-uri" /\ Running =>
      /\ pc = 1 => Len(sent) = first
      /\ pc >= 2 => Len(sent) = first + 1 /\ sent[first + 1].tx.call = "setBaseURI"
      /\ pc >= 3 => sent[first + 1].status = "success"

RunInv ==
    DeployRuns /\ CreatorsAreSent /\ CreatorsAreFirst /\ UpdateRuns /\ URIRuns

\* The statements of the two updates, one by one.
LEMMA UpdateStatements ==
  ASSUME run.script = "update-mint-group"
  PROVE  /\ Len(Program) = 9 /\ DOMAIN Program = 1 .. 9
         /\ Program[3].op = "clock"
         /\ Program[4] = Send(UpdateMintGroup1) /\ Program[5] = Send(UpdateMintGroup2)
         /\ Program[6] = Wait(1) /\ Program[7] = Wait(2)
         /\ \A k \in {1, 2, 8, 9} : Program[k].op = "read"
<1>1. Program = UpdateMintGroups
  BY DEF Program
<1>2. Len(UpdateMintGroups) = 9 /\ DOMAIN UpdateMintGroups = 1 .. 9
  BY DEF UpdateMintGroups
<1>3. /\ UpdateMintGroups[3].op = "clock"
      /\ UpdateMintGroups[4] = Send(UpdateMintGroup1)
      /\ UpdateMintGroups[5] = Send(UpdateMintGroup2)
      /\ UpdateMintGroups[6] = Wait(1) /\ UpdateMintGroups[7] = Wait(2)
  BY DEF UpdateMintGroups
<1>4. /\ UpdateMintGroups[1] = Read("public") /\ UpdateMintGroups[2] = Read("whitelist")
      /\ UpdateMintGroups[8] = Read("public") /\ UpdateMintGroups[9] = Read("whitelist")
  BY DEF UpdateMintGroups
<1>5. Read("public").op = "read" /\ Read("whitelist").op = "read"
  BY DEF Read
<1> QED
  BY <1>1, <1>2, <1>3, <1>4, <1>5

LEMMA URIStatements ==
  ASSUME run.script = "update-base-uri"
  PROVE  /\ Len(Program) = 2 /\ DOMAIN Program = 1 .. 2
         /\ Program[1] = Send([call |-> "setBaseURI"]) /\ Program[2] = Wait(1)
<1>1. Program = UpdateBaseURI
  BY DEF Program
<1> QED
  BY <1>1 DEF UpdateBaseURI

LEMMA RunInit == ScriptsInit => RunInv
<1> SUFFICES ASSUME ScriptsInit PROVE RunInv
  OBVIOUS
<1>1. sent = <<>> /\ run = [script |-> "none", result |-> "none"]
  BY DEF ScriptsInit
<1> QED
  BY <1>1 DEF RunInv, DeployRuns, CreatorsAreSent, CreatorsAreFirst, UpdateRuns,
              URIRuns, Running

LEMMA Places ==
  ASSUME NEW n \in Nat, NEW f \in Nat
  PROVE  /\ n = f + 1 \/ n = f + 2 => f + 1 \in 1 .. n
         /\ n = f + 2 => f + 2 \in 1 .. n
<1>1. ASSUME n = f + 1 \/ n = f + 2 PROVE f + 1 \in 1 .. n
  <2>1. f + 1 \in Nat /\ 1 <= f + 1 /\ f + 1 <= n
    BY <1>1
  <2> QED
    BY <2>1
<1>2. ASSUME n = f + 2 PROVE f + 2 \in 1 .. n
  BY <1>2
<1> QED
  BY <1>1, <1>2

\* The transactions of an update are in the pool.
LEMMA UpdatePlaces ==
  ASSUME UpdateRuns, run.script = "update-mint-group", run.result \in {"running", "completed"},
         pc \in Nat, first \in Nat, Len(sent) \in Nat, DOMAIN sent = 1 .. Len(sent)
  PROVE  /\ pc >= 5 => first + 1 \in DOMAIN sent
         /\ pc >= 6 => first + 2 \in DOMAIN sent
<1>1. /\ pc = 5 => Len(sent) = first + 1
      /\ pc >= 6 => Len(sent) = first + 2
  BY DEF UpdateRuns
<1>2. pc >= 5 => pc = 5 \/ pc >= 6
  OBVIOUS
<1> QED
  BY <1>1, <1>2, Places

LEMMA URIPlace ==
  ASSUME URIRuns, run.script = "update-base-uri", Running,
         pc \in Nat, first \in Nat, Len(sent) \in Nat, DOMAIN sent = 1 .. Len(sent)
  PROVE  pc >= 2 => first + 1 \in DOMAIN sent
<1>1. pc >= 2 => Len(sent) = first + 1
  BY DEF URIRuns
<1> QED
  BY <1>1, Places

\* The pool has its old length.
SameLengthOfPool ==
    /\ Len(sent') = Len(sent) /\ DOMAIN sent' = DOMAIN sent
    /\ sent' = <<>> <=> sent = <<>>

LEMMA PoolTypes ==
  ASSUME ScriptsInv, Positions
  PROVE  /\ pc \in Nat /\ pc >= 1 /\ first \in Nat /\ Len(sent) \in Nat
         /\ DOMAIN sent = 1 .. Len(sent) /\ (sent # <<>> => 1 \in DOMAIN sent)
<1>1. Len(sent) \in Nat /\ DOMAIN sent = 1 .. Len(sent) /\ sent \in Seq(SentTx)
  BY DEF ScriptsInv
<1>2. sent # <<>> => 1 \in DOMAIN sent
  BY <1>1
<1>3. Len(Program) \in Nat
  BY ProgramLength DEF ScriptsInv
<1> QED
  BY <1>1, <1>2, <1>3 DEF Positions

LEMMA UpdateKept ==
  ASSUME UpdateRuns, run.script = "update-mint-group", run.result \in {"running", "completed"},
         EntriesKept, pc \in Nat, first \in Nat, Len(sent) \in Nat, DOMAIN sent = 1 .. Len(sent)
  PROVE  /\ pc >= 5 => /\ sent'[first + 1].tx = UpdateMintGroup1
                       /\ clock.reads <= sent'[first + 1].at + clock.ahead
         /\ pc >= 6 => sent'[first + 2].tx = UpdateMintGroup2
         /\ pc >= 7 => sent'[first + 1].status = "success"
         /\ pc >= 8 => sent'[first + 2].status = "success"
<1>1. /\ pc >= 5 => /\ first + 1 \in DOMAIN sent /\ sent[first + 1].tx = UpdateMintGroup1
                    /\ clock.reads <= sent[first + 1].at + clock.ahead
      /\ pc >= 6 => first + 2 \in DOMAIN sent /\ sent[first + 2].tx = UpdateMintGroup2
      /\ pc >= 7 => sent[first + 1].status = "success"
      /\ pc >= 8 => sent[first + 2].status = "success"
  BY UpdatePlaces DEF UpdateRuns
<1>2. (pc >= 7 => pc >= 5) /\ (pc >= 8 => pc >= 6)
  OBVIOUS
<1>3. /\ first + 1 \in DOMAIN sent =>
           /\ sent'[first + 1].tx = sent[first + 1].tx
           /\ sent'[first + 1].at = sent[first + 1].at
           /\ sent[first + 1].status = "success" => sent'[first + 1].status = "success"
      /\ first + 2 \in DOMAIN sent =>
           /\ sent'[first + 2].tx = sent[first + 2].tx
           /\ sent[first + 2].status = "success" => sent'[first + 2].status = "success"
  BY DEF EntriesKept
<1> QED
  BY <1>1, <1>2, <1>3, Zenon

LEMMA CreatorsKept ==
  ASSUME EntriesKept, CreatorsAreFirst, config' = config, DOMAIN sent' = DOMAIN sent,
         sent' = <<>> <=> sent = <<>>, sent # <<>> => 1 \in DOMAIN sent
  PROVE  CreatorsAreFirst'
<1> SUFFICES ASSUME (sent # <<>>)', sent'[1].by = "deploy-serica", HasCreators',
                    NEW i \in DOMAIN sent', sent'[i].tx.call = "addMintGroup"
             PROVE  \E j \in DOMAIN sent' : j < i /\ SetsCreators(j)'
  BY DEF CreatorsAreFirst
<1>1. sent # <<>> /\ sent[1].by = "deploy-serica" /\ HasCreators
  BY DEF EntriesKept, HasCreators
<1>2. i \in DOMAIN sent /\ sent[i].tx.call = "addMintGroup"
  BY DEF EntriesKept
<1>3. PICK j \in DOMAIN sent : j < i /\ SetsCreators(j)
  BY <1>1, <1>2 DEF CreatorsAreFirst
<1> QED
  BY <1>3 DEF EntriesKept, SetsCreators

\* Nothing happens to the script; some of its transactions may be mined.
LEMMA RunSame ==
  ASSUME ScriptsInv, Positions, RunInv, UNCHANGED <<config, run, pc, first, clock>>,
         EntriesKept, SameLengthOfPool
  PROVE  RunInv'
<1>1. Program' = Program /\ UpdateMintGroup1' = UpdateMintGroup1
        /\ UpdateMintGroup2' = UpdateMintGroup2
  BY SameProgram DEF UpdateMintGroup1, UpdateMintGroup2
<1>2. /\ pc \in Nat /\ first \in Nat /\ Len(sent) \in Nat /\ DOMAIN sent = 1 .. Len(sent)
      /\ sent # <<>> => 1 \in DOMAIN sent
      /\ DOMAIN sent' = DOMAIN sent /\ (sent' = <<>> <=> sent = <<>>)
      /\ Len(sent') = Len(sent)
  BY PoolTypes DEF SameLengthOfPool
<1>3. DeployRuns'
  BY <1>2 DEF RunInv, DeployRuns, Running, EntriesKept
<1>5. CreatorsAreSent'
  <2>1. \A j \in DOMAIN sent : SetsCreators(j)' <=> SetsCreators(j)
    BY DEF SetsCreators, EntriesKept
  <2> QED
    BY <1>2, <2>1 DEF RunInv, CreatorsAreSent, Running, HasCreators
<1>6. CreatorsAreFirst'
  BY <1>2, CreatorsKept DEF RunInv
<1>7. UpdateRuns'
  <2>1. ASSUME run.script = "update-mint-group", run.result \in {"running", "completed"}
        PROVE  /\ pc >= 5 => /\ sent'[first + 1].tx = UpdateMintGroup1
                             /\ clock.reads <= sent'[first + 1].at + clock.ahead
               /\ pc >= 6 => sent'[first + 2].tx = UpdateMintGroup2
               /\ pc >= 7 => sent'[first + 1].status = "success"
               /\ pc >= 8 => sent'[first + 2].status = "success"
    BY <1>2, <2>1, UpdateKept, Zenon DEF RunInv
  <2>2. ASSUME run.script = "update-mint-group", run.result \in {"running", "completed"}
        PROVE  /\ pc <= 4 => Len(sent') = first
               /\ pc = 5 => Len(sent') = first + 1
               /\ pc >= 6 => Len(sent') = first + 2
               /\ run.result = "completed" => pc = 10
    BY <1>2, <2>2 DEF RunInv, UpdateRuns
  <2> QED
    BY <1>1, <2>1, <2>2 DEF UpdateRuns
<1>8. URIRuns'
  <2>1. ASSUME run.script = "update-base-uri", Running
        PROVE  /\ pc = 1 => Len(sent') = first
               /\ pc >= 2 => Len(sent') = first + 1 /\ sent'[first + 1].tx.call = "setBaseURI"
               /\ pc >= 3 => sent'[first + 1].status = "success"
    <3>1. pc >= 2 => first + 1 \in DOMAIN sent
      BY <1>2, <2>1, URIPlace DEF RunInv
    <3>2. first + 1 \in DOMAIN sent =>
            /\ sent'[first + 1].tx = sent[first + 1].tx
            /\ sent[first + 1].status = "success" => sent'[first + 1].status = "success"
      BY DEF EntriesKept
    <3>3. pc >= 3 => pc >= 2
      BY <1>2
    <3>4. /\ pc = 1 => Len(sent) = first
          /\ pc >= 2 => Len(sent) = first + 1 /\ sent[first + 1].tx.call = "setBaseURI"
          /\ pc >= 3 => sent[first + 1].status = "success"
      BY <2>1 DEF RunInv, URIRuns
    <3> QED
      BY <1>2, <3>1, <3>2, <3>3, <3>4, Zenon
  <2> QED
    BY <2>1 DEF URIRuns, Running
<1> QED
  BY <1>3, <1>5, <1>6, <1>7, <1>8 DEF RunInv

LEMMA RunStart ==
  ASSUME ScriptsInv, Positions, RunInv, NEW script \in Scripts, Start(script)
  PROVE  RunInv'
<1>1. /\ run' = [script |-> script, result |-> "running"] /\ pc' = 1 /\ first' = Len(sent)
      /\ UNCHANGED <<config, sent, clock>>
      /\ script \in DeployScripts => sent = <<>>
  BY DEF Start
<1>2. run'.script = script /\ run'.result = "running"
  BY <1>1
<1>3. DeployRuns'
  BY <1>1, <1>2 DEF DeployRuns
<1>5. CreatorsAreSent'
  BY <1>1 DEF CreatorsAreSent
<1>6. CreatorsAreFirst'
  BY <1>1 DEF RunInv, CreatorsAreFirst, HasCreators, SetsCreators
<1>7. UpdateRuns' /\ URIRuns'
  BY <1>1, <1>2 DEF UpdateRuns, URIRuns
<1> QED
  BY <1>3, <1>5, <1>6, <1>7 DEF RunInv

\* A group is added after the creators, whichever script did it.
LEMMA SubmitCreators ==
  ASSUME ScriptsInv, Positions, RunInv, At("send"), Submit(Program[pc].tx), config' = config
  PROVE  CreatorsAreFirst'
<1>a. PICK tx, n : tx = Program[pc].tx /\ n = Len(sent) + 1
  OBVIOUS
<1>1. /\ Len(sent) \in Nat /\ DOMAIN sent = 1 .. Len(sent) /\ DOMAIN sent' = 1 .. n
      /\ \A i \in DOMAIN sent : sent'[i] = sent[i]
      /\ sent'[n].tx = tx /\ sent'[n].by = run.script
  BY <1>a, SubmitAppends
<1>2. Running /\ pc \in DOMAIN Program /\ Program[pc].op = "send" /\ config \in Configs
  BY DEF At, ScriptsInv
<1> SUFFICES ASSUME sent'[1].by = "deploy-serica", HasCreators,
                    NEW i \in 1 .. n, sent'[i].tx.call = "addMintGroup"
             PROVE  \E j \in 1 .. n : j < i /\ sent'[j].tx.call = "setCreators"
  BY <1>1 DEF CreatorsAreFirst, HasCreators, SetsCreators
<1>3. CASE i # n
  <2>1. i \in DOMAIN sent /\ 1 \in DOMAIN sent /\ sent # <<>>
    BY <1>a, <1>1, <1>3
  <2>2. sent[1].by = "deploy-serica" /\ sent[i].tx.call = "addMintGroup"
    BY <1>1, <2>1
  <2>3. PICK j \in DOMAIN sent : j < i /\ SetsCreators(j)
    BY <2>1, <2>2 DEF RunInv, CreatorsAreFirst
  <2>4. j \in 1 .. n
    BY <1>a, <1>1, <2>3
  <2> QED
    BY <1>1, <2>3, <2>4 DEF SetsCreators
<1>4. CASE i = n
  <2>1. SendsCall(pc, "addMintGroup")
    BY <1>a, <1>1, <1>2, <1>4 DEF SendsCall
  <2>2. run.script \in DeployScripts
    BY <1>2, <2>1, UpkeepSends
  <2>3. run.script = "deploy-serica"
    <3>1. CASE sent = <<>>
      BY <1>a, <1>1, <3>1
    <3>2. CASE sent # <<>>
      <4>1. 1 \in DOMAIN sent
        BY <3>2, PoolTypes
      <4>2. sent[1].by = run.script
        BY <1>2, <2>2, <3>2 DEF RunInv, DeployRuns
      <4> QED
        BY <1>1, <4>1, <4>2
    <3> QED
      BY <3>1, <3>2
  <2>4. pc >= 4
    BY <1>2, <2>1, <2>2, <2>3, DeploySends
  <2>5. PICK j \in DOMAIN sent : SetsCreators(j)
    BY <1>2, <2>3, <2>4 DEF RunInv, CreatorsAreSent
  <2>6. j \in 1 .. n /\ j < n
    BY <1>a, <1>1, <2>5
  <2> QED
    BY <1>1, <1>4, <2>5, <2>6 DEF SetsCreators
<1> QED
  BY <1>3, <1>4

\* A script that fails leaves nothing to show but its transactions.
LEMMA RunFails ==
  ASSUME ScriptsInv, Positions, RunInv, Running, run' = [run EXCEPT !.result = "failed"],
         config' = config,
         \/ UNCHANGED sent
         \/ At("send") /\ Submit(Program[pc].tx)
  PROVE  RunInv'
<1>1. run'.result = "failed" /\ ~Running'
  BY DEF ScriptsInv, Running
<1>2. CreatorsAreFirst'
  <2>1. ASSUME UNCHANGED sent PROVE CreatorsAreFirst'
    BY <2>1 DEF RunInv, CreatorsAreFirst, HasCreators, SetsCreators
  <2> QED
    BY <2>1, SubmitCreators
<1>3. DeployRuns' /\ CreatorsAreSent' /\ URIRuns'
  BY <1>1 DEF DeployRuns, CreatorsAreSent, URIRuns
<1>4. UpdateRuns'
  BY <1>1 DEF UpdateRuns
<1> QED
  BY <1>2, <1>3, <1>4 DEF RunInv

LEMMA RunFinishes ==
  ASSUME ScriptsInv, Positions, RunInv, Finish
  PROVE  RunInv'
<1>1. /\ Running /\ pc > Len(Program) /\ run' = [run EXCEPT !.result = "completed"]
      /\ UNCHANGED <<pc, first, clock, config, sent>>
  BY DEF Finish, Stop
<1>2. run'.result = "completed" /\ run'.script = run.script /\ ~Running'
  BY <1>1 DEF ScriptsInv, Running
<1>3. DeployRuns' /\ CreatorsAreSent' /\ URIRuns'
  BY <1>2 DEF DeployRuns, CreatorsAreSent, URIRuns
<1>4. CreatorsAreFirst'
  BY <1>1 DEF RunInv, CreatorsAreFirst, HasCreators, SetsCreators
<1>5. UpdateRuns'
  <2>1. UpdateMintGroup1' = UpdateMintGroup1 /\ UpdateMintGroup2' = UpdateMintGroup2
    BY <1>1 DEF UpdateMintGroup1, UpdateMintGroup2
  <2>2. ASSUME run.script = "update-mint-group" PROVE pc = 10
    <3>1. Len(Program) = 9
      BY <2>2, UpdateStatements
    <3>2. pc \in 1 .. 9 + 1 /\ pc > 9
      BY <1>1, <3>1 DEF Positions
    <3> QED
      BY <3>2
  <2> QED
    BY <1>1, <1>2, <2>1, <2>2 DEF RunInv, UpdateRuns, Running
<1> QED
  BY <1>3, <1>4, <1>5 DEF RunInv

LEMMA RunSends ==
  ASSUME ScriptsInv, Positions, RunInv, SendTx
  PROVE  RunInv'
<1>a. PICK tx, n : tx = Program[pc].tx /\ n = Len(sent) + 1
  OBVIOUS
<1>1. /\ At("send") /\ Submit(Program[pc].tx) /\ pc' = pc + 1
      /\ UNCHANGED <<run, first, config, clock>>
  BY DEF SendTx, Advance
<1>2. /\ Running /\ pc \in DOMAIN Program /\ Program[pc].op = "send" /\ config \in Configs
      /\ DOMAIN Program = 1 .. Len(Program) /\ Len(Program) \in Nat
  BY <1>1, ProgramLength DEF At, ScriptsInv
<1>3. /\ pc \in Nat /\ pc >= 1 /\ first \in Nat /\ Len(sent) \in Nat
      /\ DOMAIN sent = 1 .. Len(sent) /\ (sent # <<>> => 1 \in DOMAIN sent)
  BY PoolTypes
<1>4. /\ DOMAIN sent' = 1 .. n /\ Len(sent') = n
      /\ \A i \in DOMAIN sent : sent'[i] = sent[i]
      /\ sent'[n].tx = tx /\ sent'[n].by = run.script /\ sent'[n].at = now
  BY <1>a, <1>1, SubmitAppends
<1>5. /\ Program' = Program /\ UpdateMintGroup1' = UpdateMintGroup1
      /\ UpdateMintGroup2' = UpdateMintGroup2
  BY <1>1, SameProgram DEF UpdateMintGroup1, UpdateMintGroup2
<1>6. DeployRuns'
  <2>1. sent'[1].by = run.script \/ run.script \notin DeployScripts
    <3>1. CASE sent = <<>>
      BY <1>a, <1>4, <3>1
    <3>2. CASE sent # <<>>
      BY <1>2, <1>3, <1>4, <3>2 DEF RunInv, DeployRuns
    <3> QED
      BY <3>1, <3>2
  <2>2. pc' # 1
    BY <1>1, <1>3
  <2> QED
    BY <1>1, <2>1, <2>2 DEF DeployRuns
<1>8. CreatorsAreSent'
  <2> SUFFICES ASSUME run.script = "deploy-serica", HasCreators, pc' >= 4
               PROVE  \E j \in 1 .. n : sent'[j].tx.call = "setCreators"
    BY <1>1, <1>4 DEF CreatorsAreSent, HasCreators, SetsCreators
  <2>1. CASE pc >= 4
    <3>1. PICK j \in DOMAIN sent : SetsCreators(j)
      BY <1>2, <2>1 DEF RunInv, CreatorsAreSent
    <3>2. j \in 1 .. n
      BY <1>a, <1>3
    <3> QED
      BY <1>4, <3>1, <3>2 DEF SetsCreators
  <2>2. CASE pc = 3
    <3>1. SendsCall(pc, "setCreators")
      BY <1>2, <2>2, DeploySends DEF HasCreators, DeployScripts
    <3>2. n \in 1 .. n
      BY <1>a, <1>3
    <3> QED
      BY <1>a, <1>4, <3>1, <3>2 DEF SendsCall
  <2> QED
    BY <1>1, <1>3, <2>1, <2>2
<1>9. CreatorsAreFirst'
  BY <1>1, SubmitCreators
<1>10. UpdateRuns'
  <2> SUFFICES ASSUME run.script = "update-mint-group" PROVE UpdateRuns'
    BY <1>1 DEF UpdateRuns
  <2>1. \/ pc = 4 /\ tx = UpdateMintGroup1
        \/ pc = 5 /\ tx = UpdateMintGroup2
    <3>1. pc \in 1 .. 9 /\ pc \notin {1, 2, 3, 6, 7, 8, 9}
      BY <1>2, UpdateStatements DEF Wait
    <3>2. pc = 4 \/ pc = 5
      BY <3>1
    <3> QED
      BY <1>a, <3>2, UpdateStatements DEF Send
  <2>2. run.result = "running"
    BY <1>2 DEF Running
  <2>3. CASE pc = 4
    <3>1. Len(sent) = first /\ n = first + 1 /\ pc' = 5
      BY <1>a, <1>1, <2>2, <2>3 DEF RunInv, UpdateRuns
    <3>2. /\ sent'[first + 1].tx = UpdateMintGroup1
          /\ clock.reads <= sent'[first + 1].at + clock.ahead
      BY <1>4, <2>1, <2>3, <3>1 DEF ScriptsInv
    <3> QED
      BY <1>1, <1>4, <1>5, <2>2, <3>1, <3>2 DEF UpdateRuns
  <2>4. CASE pc = 5
    <3>1. /\ Len(sent) = first + 1 /\ n = first + 2 /\ pc' = 6
          /\ sent[first + 1].tx = UpdateMintGroup1
          /\ clock.reads <= sent[first + 1].at + clock.ahead
      BY <1>a, <1>1, <1>3, <2>2, <2>4 DEF RunInv, UpdateRuns
    <3>2. first + 1 \in DOMAIN sent
      BY <1>3, <3>1, Places
    <3>3. /\ sent'[first + 1].tx = UpdateMintGroup1 /\ sent'[first + 2].tx = UpdateMintGroup2
          /\ clock.reads <= sent'[first + 1].at + clock.ahead
      BY <1>4, <2>1, <2>4, <3>1, <3>2
    <3> QED
      BY <1>1, <1>4, <1>5, <2>2, <3>1, <3>3 DEF UpdateRuns
  <2> QED
    BY <2>1, <2>3, <2>4
<1>11. URIRuns'
  <2> SUFFICES ASSUME run.script = "update-base-uri" PROVE URIRuns'
    BY <1>1 DEF URIRuns
  <2>1. pc = 1
    BY <1>2, URIStatements DEF Wait
  <2>2. tx.call = "setBaseURI"
    BY <1>a, <2>1, URIStatements DEF Send
  <2>3. Len(sent) = first /\ n = first + 1 /\ pc' = 2
    BY <1>a, <1>1, <1>2, <2>1 DEF RunInv, URIRuns
  <2> QED
    BY <1>1, <1>4, <2>2, <2>3 DEF URIRuns
<1> QED
  BY <1>6, <1>8, <1>9, <1>10, <1>11 DEF RunInv

\* A statement that sends nothing is done.
LEMMA RunAdvances ==
  ASSUME ScriptsInv, Positions, RunInv, Advance, Running, UNCHANGED <<config, sent, clock>>,
         pc \in DOMAIN Program, Program[pc].op \in {"wait", "read", "readCreators", "nothing"},
         Program[pc].op = "wait" => sent[first + Program[pc].nth].status = "success"
  PROVE  RunInv'
<1>1. pc' = pc + 1 /\ UNCHANGED <<run, first>> /\ config \in Configs
  BY DEF Advance, ScriptsInv
<1>2. /\ pc \in Nat /\ pc >= 1 /\ first \in Nat /\ Len(sent) \in Nat
      /\ DOMAIN Program = 1 .. Len(Program) /\ Len(Program) \in Nat
  BY PoolTypes, ProgramLength, <1>1
<1>3. /\ Program' = Program /\ UpdateMintGroup1' = UpdateMintGroup1
      /\ UpdateMintGroup2' = UpdateMintGroup2
  BY <1>1, SameProgram DEF UpdateMintGroup1, UpdateMintGroup2
<1>4. DeployRuns'
  BY <1>1, <1>2 DEF RunInv, DeployRuns, Running
<1>6. CreatorsAreSent'
  <2> SUFFICES ASSUME run.script = "deploy-serica", HasCreators, pc' >= 4
               PROVE  \E j \in DOMAIN sent : SetsCreators(j)
    BY <1>1 DEF CreatorsAreSent, HasCreators, SetsCreators
  <2>1. pc # 3
    BY <1>1, DeploySends DEF HasCreators, DeployScripts, SendsCall
  <2>2. pc >= 4
    BY <1>1, <1>2, <2>1
  <2> QED
    BY <2>2 DEF RunInv, CreatorsAreSent
<1>7. CreatorsAreFirst'
  BY DEF RunInv, CreatorsAreFirst, HasCreators, SetsCreators
<1>8. UpdateRuns'
  <2> SUFFICES ASSUME run.script = "update-mint-group" PROVE UpdateRuns'
    BY <1>1 DEF UpdateRuns
  <2>1. run.result = "running" /\ UpdateRuns
    BY DEF Running, RunInv
  <2>2. pc \in {1, 2, 6, 7, 8, 9}
    <3>1. pc \in 1 .. 9 /\ pc \notin {3, 4, 5}
      BY UpdateStatements DEF Send
    <3> QED
      BY <3>1
  <2>3. /\ pc = 6 => sent[first + 1].status = "success"
        /\ pc = 7 => sent[first + 2].status = "success"
    BY UpdateStatements DEF Wait
  <2>4. CASE pc \in {1, 2}
    BY <1>1, <1>3, <2>1, <2>4 DEF UpdateRuns
  <2>5. CASE pc \in {6, 7, 8, 9}
    BY <1>1, <1>3, <2>1, <2>3, <2>5 DEF UpdateRuns
  <2> QED
    BY <2>2, <2>4, <2>5
<1>9. URIRuns'
  <2> SUFFICES ASSUME run.script = "update-base-uri" PROVE URIRuns'
    BY <1>1 DEF URIRuns
  <2>1. pc = 2 /\ sent[first + 1].status = "success"
    BY URIStatements DEF Send, Wait
  <2>2. pc' = 3
    BY <1>1, <2>1
  <2> QED
    BY <1>1, <2>1, <2>2 DEF RunInv, URIRuns, Running
<1> QED
  BY <1>4, <1>6, <1>7, <1>8, <1>9 DEF RunInv

LEMMA RunReadsClock ==
  ASSUME ScriptsInv, Positions, RunInv, ReadClock
  PROVE  RunInv'
<1>1. /\ Running /\ pc \in DOMAIN Program /\ Program[pc].op = "clock" /\ config \in Configs
      /\ pc' = pc + 1 /\ UNCHANGED <<run, first, config, sent>>
  BY DEF ReadClock, At, Advance, ScriptsInv
<1>2. run.script = "update-mint-group" /\ pc = 3 /\ pc' = 4
  BY <1>1, ClockStatement
<1>4. DeployRuns' /\ CreatorsAreSent' /\ URIRuns'
  BY <1>1, <1>2 DEF DeployRuns, CreatorsAreSent, URIRuns, DeployScripts
<1>5. CreatorsAreFirst'
  BY <1>1 DEF RunInv, CreatorsAreFirst, HasCreators, SetsCreators
<1>6. UpdateRuns'
  <2>1. Len(sent) = first /\ run.result = "running"
    BY <1>1, <1>2 DEF RunInv, UpdateRuns, Running
  <2> QED
    BY <1>1, <1>2, <2>1 DEF UpdateRuns
<1> QED
  BY <1>4, <1>5, <1>6 DEF RunInv

\* The statement at hand is done, and nothing was sent: the script goes on or fails.
LEMMA RunGoesOn ==
  ASSUME ScriptsInv, Positions, RunInv,
         Refused \/ AwaitReceipt \/ ReadState \/ Skip \/ Throw
  PROVE  RunInv'
<1>1. ASSUME Stop("failed"), Running, UNCHANGED <<config, sent>> PROVE RunInv'
  BY <1>1, RunFails DEF Stop
<1>2. CASE Refused \/ Throw
  BY <1>1, <1>2 DEF Refused, Throw, At
<1>3. CASE Skip
  BY <1>3, RunAdvances DEF Skip, At
<1>4. CASE AwaitReceipt
  <2>1. Running /\ pc \in DOMAIN Program /\ Program[pc].op = "wait" /\ UNCHANGED <<config, sent>>
    BY <1>4 DEF AwaitReceipt, At
  <2>2. \/ /\ sent[first + Program[pc].nth].status = "success"
           /\ Advance /\ UNCHANGED clock
        \/ Stop("failed")
    BY <1>4 DEF AwaitReceipt
  <2> QED
    BY <1>1, <2>1, <2>2, RunAdvances
<1>5. CASE ReadState
  <2>1. /\ Running /\ pc \in DOMAIN Program /\ Program[pc].op \in {"read", "readCreators"}
        /\ UNCHANGED <<config, sent>>
        /\ (Advance /\ UNCHANGED clock) \/ Stop("failed")
    BY <1>5 DEF ReadState, At
  <2> QED
    BY <1>1, <2>1, RunAdvances
<1> QED
  BY <1>2, <1>3, <1>4, <1>5

LEMMA RunNext ==
  ASSUME ScriptsInv, Positions, PoolInv, RunInv, [ScriptsNext]_svars
  PROVE  RunInv'
<1>1. CASE \E script \in Scripts : Start(script)
  BY <1>1, RunStart
<1>2. CASE SendTx
  BY <1>2, RunSends
<1>3. CASE Refused \/ AwaitReceipt \/ ReadState \/ Skip \/ Throw
  BY <1>3, RunGoesOn
<1>4. CASE ReadClock
  BY <1>4, RunReadsClock
<1>5. CASE Finish
  BY <1>5, RunFinishes
<1>6. CASE Interrupted
  <2>1. /\ Running /\ run' = [run EXCEPT !.result = "failed"] /\ config' = config
        /\ \/ UNCHANGED sent
           \/ At("send") /\ Submit(Program[pc].tx)
    BY <1>6 DEF Interrupted, Stop
  <2> QED
    BY <2>1, RunFails
<1>7. CASE Mine
  <2>1. UNCHANGED <<config, run, pc, first, clock>>
    BY <1>7 DEF Mine, scriptVars
  <2>2. PICK i \in DOMAIN sent : \E status : Mined(i, status)
    BY <1>7, MineCases, Zenon
  <2>3. EntriesKept
    BY <2>2 DEF Mined, EntriesKept
  <2>4. SameLengthOfPool
    <3>1. sent \in Seq(SentTx)
      BY DEF ScriptsInv
    <3>2. PICK k \in DOMAIN sent : \E entry : sent' = [sent EXCEPT ![k] = entry]
      <4>1. PICK k \in DOMAIN sent : \/ sent' = [sent EXCEPT ![k].status = "success"]
                                     \/ sent' = [sent EXCEPT ![k].status = "reverted"]
        BY <1>7 DEF Mine
      <4> QED
        BY <4>1
    <3>3. Len(sent') = Len(sent) /\ DOMAIN sent' = DOMAIN sent
      BY <3>1, <3>2
    <3>4. sent # <<>> /\ sent' # <<>>
      BY <3>1, <3>2, <3>3
    <3> QED
      BY <3>3, <3>4 DEF SameLengthOfPool
  <2> QED
    BY <2>1, <2>3, <2>4, RunSame
<1>8. CASE OthersCall \/ MintGoesOn \/ TimePasses \/ UNCHANGED svars
  <2>1. UNCHANGED <<config, run, pc, first, clock, sent>>
    BY <1>8 DEF OthersCall, MintGoesOn, TimePasses, scriptVars, svars
  <2>2. EntriesKept /\ SameLengthOfPool
    BY <2>1 DEF EntriesKept, SameLengthOfPool
  <2> QED
    BY <2>1, <2>2, RunSame
<1> QED
  BY <1>1, <1>2, <1>3, <1>4, <1>5, <1>6, <1>7, <1>8 DEF ScriptsNext, ScriptStep

LEMMA PoolNext ==
  ASSUME Inv, ScriptsInv, Positions, PoolInv, RunInv, [ScriptsNext]_svars
  PROVE  PoolInv'
<1>1. ASSUME UNCHANGED <<chainVars, sent>> PROVE PoolInv'
  <2>1. UNCHANGED <<members, creators, groupIndexByName, mintGroups, frames, now, deployed,
                    tokenBaseURI, sent>>
    BY <1>1 DEF chainVars, vars, saleVars
  <2>2. Setup(Storage)' = Setup(Storage)
    BY <2>1, SetupOfStorage, SetupOfStoragePrime
  <2>3. \A i \in DOMAIN frames' : Setup(frames'[i].saved) = Setup(Storage)
    BY <2>1 DEF PoolInv, SetupKept
  <2>4. SetupKept'
    BY <2>1, <2>2, <2>3 DEF PoolInv, SetupKept, OperatorAlone
  <2> QED
    BY <2>1, <2>2, <2>4, PoolSame
<1>2. CASE \E script \in Scripts : Start(script)
  BY <1>1, <1>2 DEF Start
<1>3. ASSUME SendTx \/ Refused \/ Interrupted \/ AwaitReceipt \/ ReadState \/ ReadClock
               \/ Skip \/ Throw \/ Finish
      PROVE  PoolInv'
  <2>1. UNCHANGED <<chainVars, config>>
    BY <1>3, ControlStep
  <2>2. CASE UNCHANGED sent
    BY <1>1, <2>1, <2>2
  <2>3. CASE At("send") /\ Submit(Program[pc].tx)
    <3>1. Running /\ pc \in DOMAIN Program /\ config \in Configs
      BY <2>3 DEF At, ScriptsInv
    <3>2. ASSUME SendsCall(pc, "deploy") PROVE sent = <<>>
      <4>1. run.script \in DeployScripts /\ pc = 1
        BY <3>1, <3>2, UpkeepSends, DeploySends
      <4> QED
        BY <3>1, <4>1 DEF RunInv, DeployRuns
    <3> QED
      BY <2>1, <2>3, <3>2, PoolSubmit
  <2> QED
    BY <1>3, <2>2, <2>3, PoolGrows
<1>4. CASE Mine
  BY <1>4, PoolMine
<1>5. CASE OthersCall \/ MintGoesOn \/ TimePasses
  <2>1. /\ Setup(Storage)' = Setup(Storage) /\ SetupKept'
        /\ now' = now \/ now' = now + 1
    BY <1>5, OthersKeepSetup DEF PoolInv
  <2>2. UNCHANGED <<sent, deployed, tokenBaseURI>>
    BY <1>5 DEF OthersCall, MintGoesOn, TimePasses
  <2> QED
    BY <2>1, <2>2, PoolSame
<1>6. CASE UNCHANGED svars
  BY <1>1, <1>6 DEF svars
<1> QED
  BY <1>2, <1>3, <1>4, <1>5, <1>6 DEF ScriptsNext, ScriptStep

LEMMA ScriptsInvariants == ScriptsSpec => [](Inv /\ ScriptsInv /\ Positions /\ PoolInv /\ RunInv)
<1>1. PoolInv /\ RunInv /\ Inv /\ ScriptsInv /\ Positions /\ [ScriptsNext]_svars
        => (PoolInv /\ RunInv)'
  BY PoolNext, RunNext
<1> QED
  BY <1>1, PoolInit, RunInit, CollectionStaysSound, ScriptsInvariance, PositionsInvariance, PTL
     DEF ScriptsSpec

(***************************************************************************)
(* A transaction that is taken and then reverted is one whose start passed *)
(* while it waited, or the second of two groups of one name: for any file, *)
(* any clock, and any interruptions, nothing else the scripts send is made *)
(* invalid by what is mined before.                                        *)
(***************************************************************************)
THEOREM LateOrRepeatedReverts == ScriptsSpec => []OnlyLateOrRepeated
<1>1. PoolInv => OnlyLateOrRepeated
  BY DEF PoolInv, EntryFits, LateFits, OnlyLateOrRepeated
<1> QED
  BY <1>1, ScriptsInvariants, PTL

(***************************************************************************)
(* After deploy-serica, no group is there before the creators, though the  *)
(* script awaits neither and may end anywhere.                             *)
(***************************************************************************)
THEOREM CreatorsComeFirst == ScriptsSpec => []CreatorsBeforeGroups
<1>1. ScriptsInv /\ PoolInv /\ RunInv => CreatorsBeforeGroups
  <2> SUFFICES ASSUME ScriptsInv, PoolInv, RunInv, sent # <<>>, sent[1].by = "deploy-serica",
                      config # <<>>, config[1].creators # <<>>, mintGroups # <<>>
               PROVE  creators # <<>>
    BY DEF CreatorsBeforeGroups
  <2>1. PICK i \in DOMAIN sent : sent[i].tx.call = "addMintGroup" /\ sent[i].status = "success"
    BY DEF PoolInv, GroupsWereSent
  <2>2. PICK j \in DOMAIN sent : j < i /\ sent[j].tx.call = "setCreators"
    BY <2>1 DEF RunInv, CreatorsAreFirst, HasCreators, SetsCreators
  <2>3. sent[j].status # "pending"
    BY <2>1, <2>2 DEF PoolInv, MinedInOrder
  <2>4. sent[j].status # "reverted"
    BY <2>2 DEF PoolInv, EntryFits, LateFits, IsGroupCall
  <2>5. sent[j].status \in Status
    BY SentFields DEF ScriptsInv, SentTx
  <2> QED
    BY <2>2, <2>3, <2>4, <2>5 DEF PoolInv, EntryFits, CreatorsFit, Status
<1> QED
  BY <1>1, ScriptsInvariants, PTL

\* When update-mint-group is through, the two groups have the terms it sent.
LEMMA UpdateDone ==
  ASSUME ScriptsInv, Positions, PoolInv, RunInv, run.script = "update-mint-group",
         run.result \in {"running", "completed"}, pc = 10
  PROVE  /\ sent[first + 1].tx = UpdateMintGroup1 /\ sent[first + 2].tx = UpdateMintGroup2
         /\ GroupOf("whitelist").terms = WhitelistTerms(clock.reads)
         /\ GroupOf("public").terms = PublicTerms(clock.reads)
         /\ clock.reads \in Nat /\ clock.reads > 0 /\ clock.ahead > 0
<1>1. /\ Len(sent) = first + 2
      /\ sent[first + 1].tx = UpdateMintGroup1 /\ sent[first + 2].tx = UpdateMintGroup2
      /\ sent[first + 1].status = "success" /\ sent[first + 2].status = "success"
  BY DEF RunInv, UpdateRuns
<1>2. /\ first \in Nat /\ Len(sent) \in Nat /\ DOMAIN sent = 1 .. Len(sent)
  BY PoolTypes
<1>3. first + 1 \in DOMAIN sent /\ first + 2 \in DOMAIN sent
  BY <1>1, <1>2, Places
<1>4. /\ UpdateMintGroup1.call = "updateMintGroup" /\ UpdateMintGroup1.name = "whitelist"
      /\ UpdateMintGroup1.terms = WhitelistTerms(clock.reads)
      /\ UpdateMintGroup2.call = "updateMintGroup" /\ UpdateMintGroup2.name = "public"
      /\ UpdateMintGroup2.terms = PublicTerms(clock.reads)
  BY DEF UpdateMintGroup1, UpdateMintGroup2
<1>5. ~Superseded(first + 1)
  <2>1. ASSUME NEW j \in DOMAIN sent, first + 1 < j PROVE j = first + 2
    BY <1>1, <1>2, <2>1
  <2> QED
    BY <1>1, <1>4, <2>1 DEF Superseded
<1>6. ~Superseded(first + 2)
  <2>1. ASSUME NEW j \in DOMAIN sent, first + 2 < j PROVE FALSE
    BY <1>1, <1>2, <2>1
  <2> QED
    BY <2>1 DEF Superseded
<1>7. TermsFit(first + 1) /\ TermsFit(first + 2)
  BY <1>3 DEF PoolInv, EntryFits
<1>8. /\ GroupOf("whitelist").terms = WhitelistTerms(clock.reads)
      /\ GroupOf("public").terms = PublicTerms(clock.reads)
  BY <1>1, <1>4, <1>5, <1>6, <1>7 DEF TermsFit, IsGroupCall
<1>9. clock.reads \in Nat /\ clock.reads > 0 /\ clock.ahead > 0
  <2>1. /\ InTime(sent[first + 1]) /\ sent[first + 1].at \in Nat
        /\ clock.reads \in Nat /\ clock.ahead \in Nat
    BY <1>3, SentFields, ClockNumbers DEF ScriptsInv
  <2>2. WhitelistTerms(clock.reads).startTime = clock.reads
    BY DEF WhitelistTerms
  <2>3. clock.reads > sent[first + 1].at
    BY <1>1, <1>4, <2>1, <2>2 DEF InTime
  <2>4. clock.reads <= sent[first + 1].at + clock.ahead
    BY DEF RunInv, UpdateRuns
  <2> QED
    BY <2>1, <2>3, <2>4
<1> QED
  BY <1>1, <1>8, <1>9

(***************************************************************************)
(* update-mint-group completes only if its clock was ahead of the chain's, *)
(* for any delays: the start it sends is the time it has read, which for a *)
(* clock that is right has come when it sends.                             *)
(***************************************************************************)
THEOREM ClocksAreFast == ScriptsSpec => []OnlyFastClocks
<1>1. ScriptsInv /\ Positions /\ PoolInv /\ RunInv => OnlyFastClocks
  <2> SUFFICES ASSUME ScriptsInv, Positions, PoolInv, RunInv, Completed({"update-mint-group"})
               PROVE  clock.ahead > 0
    BY DEF OnlyFastClocks
  <2>1. run.script = "update-mint-group" /\ run.result = "completed"
    BY DEF Completed
  <2>2. pc = 10
    BY <2>1 DEF RunInv, UpdateRuns
  <2> QED
    BY <2>1, <2>2, UpdateDone
<1> QED
  BY <1>1, ScriptsInvariants, PTL

(***************************************************************************)
(* After a completed update-mint-group the listed and the public sale are  *)
(* never open at once, for any spans of which the listed sale's is shorter *)
(* than the delay of the public one.                                       *)
(***************************************************************************)
THEOREM SalesStayApart == ScriptsSpec => []SalesApart
<1>1. Inv /\ ScriptsInv /\ Positions /\ PoolInv /\ RunInv => SalesApart
  <2> SUFFICES ASSUME Inv, ScriptsInv, Positions, PoolInv, RunInv,
                      Completed({"update-mint-group"}),
                      OnSale(GroupOf("whitelist")), OnSale(GroupOf("public"))
               PROVE  FALSE
    BY DEF SalesApart
  <2>1. run.script = "update-mint-group" /\ run.result = "completed"
    BY DEF Completed
  <2>2. pc = 10
    BY <2>1 DEF RunInv, UpdateRuns
  <2>3. /\ GroupOf("whitelist").terms = WhitelistTerms(clock.reads)
        /\ GroupOf("public").terms = PublicTerms(clock.reads)
        /\ clock.reads \in Nat /\ clock.reads > 0 /\ clock.ahead > 0
    BY <2>1, <2>2, UpdateDone
  <2>4. WhitelistTerms(clock.reads).endTime = 0 \/ now <= WhitelistTerms(clock.reads).endTime
    BY <2>3 DEF OnSale
  <2>5. now >= PublicTerms(clock.reads).startTime
    BY <2>3 DEF OnSale
  <2>6. /\ WhitelistTerms(clock.reads).endTime = clock.reads + WhitelistSpan
        /\ PublicTerms(clock.reads).startTime = clock.reads + PublicDelay
    BY DEF WhitelistTerms, PublicTerms
  <2>7. WhitelistSpan \in Nat /\ PublicDelay \in Nat /\ WhitelistSpan < PublicDelay
    BY ScriptsAssumption
  <2>8. now \in Nat
    BY DEF Inv, TypeOK
  <2> QED
    BY <2>3, <2>4, <2>5, <2>6, <2>7, <2>8
<1> QED
  BY <1>1, ScriptsInvariants, PTL

(***************************************************************************)
(* update-mint-group and update-base-uri tell the truth when they say that *)
(* they are done: the collection has what they sent.                       *)
(***************************************************************************)
THEOREM ReportsAreTrue == ScriptsSpec => UpdatesReportTruth
<1> DEFINE Truth == /\ run.script = "update-mint-group" =>
                         \A i \in {first + 1, first + 2} :
                           GroupOf(sent[i].tx.name).terms = sent[i].tx.terms
                    /\ run.script = "update-base-uri" => tokenBaseURI = "script"
<1>1. ScriptsInv /\ Positions /\ PoolInv /\ RunInv /\ Finish => Truth
  <2> SUFFICES ASSUME ScriptsInv, Positions, PoolInv, RunInv, Finish PROVE Truth
    OBVIOUS
  <2>1. Running /\ run.result = "running" /\ pc > Len(Program) /\ pc \in 1 .. Len(Program) + 1
    BY DEF Finish, Running, Positions
  <2>2. ASSUME run.script = "update-mint-group"
        PROVE  \A i \in {first + 1, first + 2} :
                 GroupOf(sent[i].tx.name).terms = sent[i].tx.terms
    <3>1. pc = 10
      <4>1. pc \in 1 .. 9 + 1 /\ pc > 9
        BY <2>1, <2>2, UpdateStatements
      <4> QED
        BY <4>1
    <3>2. /\ sent[first + 1].tx = UpdateMintGroup1 /\ sent[first + 2].tx = UpdateMintGroup2
          /\ GroupOf("whitelist").terms = WhitelistTerms(clock.reads)
          /\ GroupOf("public").terms = PublicTerms(clock.reads)
      BY <2>1, <2>2, <3>1, UpdateDone
    <3>3. /\ UpdateMintGroup1.name = "whitelist" /\ UpdateMintGroup2.name = "public"
          /\ UpdateMintGroup1.terms = WhitelistTerms(clock.reads)
          /\ UpdateMintGroup2.terms = PublicTerms(clock.reads)
      BY DEF UpdateMintGroup1, UpdateMintGroup2
    <3> QED
      BY <3>2, <3>3
  <2>3. ASSUME run.script = "update-base-uri" PROVE tokenBaseURI = "script"
    <3>1. pc \in Nat /\ pc > 2
      BY <2>1, <2>3, URIStatements
    <3>2. /\ Len(sent) = first + 1 /\ sent[first + 1].tx.call = "setBaseURI"
          /\ sent[first + 1].status = "success"
      BY <2>1, <2>3, <3>1 DEF RunInv, URIRuns
    <3>3. first + 1 \in DOMAIN sent
      BY <3>2, PoolTypes, Places
    <3> QED
      BY <3>2, <3>3 DEF PoolInv, EntryFits, URIFits
  <2> QED
    BY <2>2, <2>3
<1>2. ScriptsInv /\ Positions /\ PoolInv /\ RunInv => [Finish => Truth]_svars
  BY <1>1
<1> QED
  BY <1>2, ScriptsInvariants, PTL DEF UpdatesReportTruth
=============================================================================
