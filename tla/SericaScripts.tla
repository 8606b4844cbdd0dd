--------------------------- MODULE SericaScripts ---------------------------
(***************************************************************************)
(* The scripts by which an operator deploys and runs the collection, next  *)
(* to the collection and its buyers.  A script talks to a node: it sends   *)
(* transactions, which the node simulates and puts into its pool, it may   *)
(* or may not wait for their receipts, and it reads.  The pool is mined in *)
(* the order of the operator's nonces, at times the script does not        *)
(* choose.  Any request may fail, its answer may be lost, or the process   *)
(* may be killed: then the script ends, and what it sent is mined or not.  *)
(*                                                                         *)
(* A script is a sequence of statements; pc is the next one.               *)
(***************************************************************************)
EXTENDS SericaNFTCollection

CONSTANTS
    Configs,         \* the groups config/serica-config.json may list
    Unreadable,      \* a date, a price or a share the scripts cannot convert
    Skews,           \* how far the operator's clock may be ahead of the chain's
    WhitelistSpan,   \* 3 hours and 5 seconds, the length of the listed sale
    PublicDelay,     \* 4 hours, after which the public sale starts
    PublicSpan,      \* 7 days, its length
    MaxRuns          \* how many scripts are run (a bound)

DeployScripts == {"deploy-serica", "old_scripts/deploy"}

UpkeepScripts == {"update-mint-group", "update-base-uri", "upgrade-contracts",
                  "old_scripts/upgrade", "test-deployment"}

Scripts == DeployScripts \cup UpkeepScripts

\* Mutant: the listed sale starts a little later than the operator's clock says.
WhitelistTermsSoon(time) ==
    [merkleRoot |-> NoRoot, maxTokens |-> 10, unitPrice |-> 1, mintPerWallet |-> 4,
     startTime |-> time + 1, endTime |-> time + 1 + WhitelistSpan]

\* What is sold: the prices of update-mint-group are in tenths of a token.
WhitelistTerms(time) ==
    [merkleRoot |-> NoRoot, maxTokens |-> 10, unitPrice |-> 1, mintPerWallet |-> 4,
     startTime |-> time, endTime |-> time + WhitelistSpan]

\* Mutant: the public sale starts when the listed one does.
PublicTermsNow(time) ==
    [merkleRoot |-> NoRoot, maxTokens |-> 10, unitPrice |-> 2, mintPerWallet |-> 4,
     startTime |-> time, endTime |-> time + PublicDelay + PublicSpan]

PublicTerms(time) ==
    [merkleRoot |-> NoRoot, maxTokens |-> 10, unitPrice |-> 2, mintPerWallet |-> 4,
     startTime |-> time + PublicDelay, endTime |-> time + PublicDelay + PublicSpan]

ConfigGroup(group) ==
    /\ group.name \in GroupNames
    /\ group.terms \in GroupTerms \cup {Unreadable}
    /\ group.creators \in CreatorSplits \cup {<<>>, Unreadable}

\* A file may name two groups alike; what the scripts send is among what may be sent.
ASSUME ScriptsAssumption ==
    /\ Skews \subseteq Nat
    /\ {WhitelistSpan, PublicDelay, PublicSpan, MaxRuns} \subseteq Nat
    /\ WhitelistSpan < PublicDelay
    /\ \A list \in Configs :
         /\ list \in Seq(Range(list))
         /\ \A i \in DOMAIN list : ConfigGroup(list[i])
    /\ Unreadable \notin GroupTerms
    /\ Unreadable \notin CreatorSplits \cup {<<>>}
    /\ {"public", "whitelist"} \subseteq GroupNames
    /\ \A time \in 0 .. MaxTime, skew \in Skews \cup {0} :
         {WhitelistTerms(time + skew), PublicTerms(time + skew)} \subseteq GroupTerms

VARIABLES
    config,             \* what the deployment reads from its file
    deployed,           \* the proxy has its code
    sent,               \* the operator's transactions, in the order of their nonces
    run,                \* the script that runs or ran last, and its result
    pc,                 \* its next statement
    first,              \* how many transactions were sent before it
    clock,              \* what update-mint-group has read, and how far it was ahead
    runs,               \* how many scripts have been started
    tokenBaseURI,
    implementation      \* how many times the proxy has been given an implementation

scriptVars == <<run, pc, first, clock, runs>>

chainVars == <<vars, deployed, tokenBaseURI, implementation>>

svars == <<chainVars, config, sent, scriptVars>>
-----------------------------------------------------------------------------
\* The statements of the scripts.
Send(tx) == [op |-> "send", tx |-> tx]

Wait(nth) == [op |-> "wait", nth |-> nth]   \* for the receipt of its nth transaction

Read(name) == [op |-> "read", name |-> name]

Deployment == [call |-> "deploy"]

\* Where the code tests and has nothing to do, or fails before it sends.
Nothing == [op |-> "nothing"]

Failure == [op |-> "throw"]

\* Number.toString and parseEther, or the encoder, refuse a price, and a date that is none.
GroupStatement(group) ==
    IF group.terms = Unreadable THEN Failure
    ELSE Send([call |-> "addMintGroup", name |-> group.name, terms |-> group.terms])

\* BigInt, and the encoder of ethers, refuse a number that is not whole.
CreatorsStatement(group) ==
    CASE group.creators = <<>> -> Nothing
      [] group.creators = Unreadable -> Failure
      [] OTHER -> Send([call |-> "setCreators", split |-> group.creators])

\* Mutant: the loop ends one group early.
GroupsButLast ==
    [i \in {j \in DOMAIN config : j < Len(config)} |-> GroupStatement(config[i])]

AddGroups == [i \in DOMAIN config |-> GroupStatement(config[i])]

\* The creators are those of the first group, whose lack is an error.
FirstCreators == IF config = <<>> THEN Failure ELSE CreatorsStatement(config[1])

\* Mutant: the creators are set when the groups are there, as the earlier script does.
DeployGroupsFirst == <<Send(Deployment), Wait(1)>> \o AddGroups \o <<FirstCreators>>

\* No receipt is awaited but that of the deployment.
DeploySerica == <<Send(Deployment), Wait(1), FirstCreators>> \o AddGroups

\* The earlier script sets the creators after each group, so that the last ones stay.
OldDeploy ==
    <<Send(Deployment), Wait(1)>>
      \o [k \in 1 .. 2 * Len(config) |->
           IF k % 2 = 1 THEN GroupStatement(config[(k + 1) \div 2])
           ELSE CreatorsStatement(config[k \div 2])]

\* The four readings of Date.now() are taken for one.
UpdateMintGroup1 ==
    [call |-> "updateMintGroup", name |-> "whitelist", terms |-> WhitelistTerms(clock.reads)]

UpdateMintGroup2 ==
    [call |-> "updateMintGroup", name |-> "public", terms |-> PublicTerms(clock.reads)]

\* Mutant: the second receipt is not awaited.
UpdateWaitsOnce ==
    <<Read("public"), Read("whitelist"), [op |-> "clock"],
      Send(UpdateMintGroup1), Send(UpdateMintGroup2), Wait(1),
      Read("public"), Read("whitelist")>>

UpdateMintGroups ==
    <<Read("public"), Read("whitelist"), [op |-> "clock"],
      Send(UpdateMintGroup1), Send(UpdateMintGroup2), Wait(1), Wait(2),
      Read("public"), Read("whitelist")>>

UpdateBaseURI == <<Send([call |-> "setBaseURI"]), Wait(1)>>

\* upgradeProxy sends the change of the implementation and does not await it.
UpgradeContracts == <<Send([call |-> "upgradeTo"])>>

\* The earlier one is given no address but the text "DEPLOYED_PROXY_ADDRESS".
OldUpgrade == <<Failure>>

\* It reads every group there is, and the first of the creators.
TestDeployment == <<[op |-> "readCreators"]>>

Program ==
    CASE run.script = "deploy-serica" -> DeploySerica
      [] run.script = "old_scripts/deploy" -> OldDeploy
      [] run.script = "update-mint-group" -> UpdateMintGroups
      [] run.script = "update-base-uri" -> UpdateBaseURI
      [] run.script = "upgrade-contracts" -> UpgradeContracts
      [] run.script = "old_scripts/upgrade" -> OldUpgrade
      [] run.script = "test-deployment" -> TestDeployment
      [] OTHER -> <<>>
-----------------------------------------------------------------------------
ScriptsInit ==
    /\ Init
    /\ config \in Configs
    /\ deployed = FALSE
    /\ sent = <<>>
    /\ run = [script |-> "none", result |-> "none"]
    /\ pc = 1
    /\ first = 0
    /\ clock = [reads |-> 0, ahead |-> 0]
    /\ runs = 0
    /\ tokenBaseURI = "config"
    /\ implementation = 1

Running == run.result = "running"

\* The running script is at a statement of this kind.
At(op) == Running /\ pc \in DOMAIN Program /\ Program[pc].op = op

\* Mutant: the transactions of a script are counted from one.
StartFromOne(script) ==
    /\ ~Running
    /\ runs < MaxRuns
    /\ IF script \in DeployScripts THEN sent = <<>> ELSE deployed
    /\ run' = [script |-> script, result |-> "running"]
    /\ pc' = 1
    /\ first' = Len(sent) + 1
    /\ runs' = runs + 1
    /\ UNCHANGED <<chainVars, config, sent, clock>>

\* The collection is deployed once; the other scripts name its address.
Start(script) ==
    /\ ~Running
    /\ runs < MaxRuns
    /\ IF script \in DeployScripts THEN sent = <<>> ELSE deployed
    /\ run' = [script |-> script, result |-> "running"]
    /\ pc' = 1
    /\ first' = Len(sent)
    /\ runs' = runs + 1
    /\ UNCHANGED <<chainVars, config, sent, clock>>

Advance ==
    /\ pc' = pc + 1
    /\ UNCHANGED <<run, first, runs>>

Stop(result) ==
    /\ run' = [run EXCEPT !.result = result]
    /\ UNCHANGED <<pc, first, clock, runs>>

\* What the collection asks of a call by the deployer, in a block of that time.
Accepts(tx, time) ==
    CASE tx.call = "deploy" -> ~deployed
      [] tx.call = "setCreators" -> HasRole(ADMIN_ROLE, Deployer) /\ ValidSplit(tx.split)
      [] tx.call = "addMintGroup" ->
           /\ HasRole(ADMIN_ROLE, Deployer)
           /\ tx.name # "" /\ ~GroupExists(tx.name) /\ ValidTermsAt(tx.terms, time)
      [] tx.call = "updateMintGroup" ->
           HasRole(ADMIN_ROLE, Deployer) /\ GroupExists(tx.name) /\ ValidTermsAt(tx.terms, time)
      [] tx.call = "setBaseURI" -> HasRole(ADMIN_ROLE, Deployer)
      [] tx.call = "upgradeTo" -> HasRole(DEFAULT_ADMIN_ROLE, Deployer)

\* The node simulates a transaction on the last block, which is of now or earlier.
EstimateTimes == {time \in {now - 1, now} : time \in Nat}

\* Mutant: a gas limit is given with the transaction, so that nothing is simulated.
EstimatesAnything(tx) == TRUE

Estimates(tx) == \E time \in EstimateTimes : Accepts(tx, time)

\* The node takes the transaction: it is in the pool.
Submit(tx) ==
    /\ Estimates(tx)
    /\ sent' = Append(sent, [tx |-> tx, by |-> run.script, at |-> now, status |-> "pending"])

SendTx ==
    /\ At("send")
    /\ Submit(Program[pc].tx)
    /\ Advance
    /\ UNCHANGED <<chainVars, config, clock>>

\* The simulation reverts, and the await throws.
Refused ==
    /\ At("send")
    /\ \E time \in EstimateTimes : ~Accepts(Program[pc].tx, time)
    /\ Stop("failed")
    /\ UNCHANGED <<chainVars, config, sent>>

\* A request fails, or its answer is lost, or the process ends: the script is over.
\* Of a transaction nobody knows whether the node has it.
Interrupted ==
    /\ Running
    /\ Stop("failed")
    /\ \/ UNCHANGED sent
       \/ At("send") /\ Submit(Program[pc].tx)
    /\ UNCHANGED <<chainVars, config>>

\* Mutant: the script polls until the transaction has succeeded.
AwaitSuccess ==
    /\ At("wait")
    /\ sent[first + Program[pc].nth].status = "success"
    /\ Advance
    /\ UNCHANGED <<chainVars, config, sent, clock>>

\* wait() throws if the transaction was reverted.
AwaitReceipt ==
    /\ At("wait")
    /\ LET tx == sent[first + Program[pc].nth]
       IN  \/ tx.status = "success" /\ Advance /\ UNCHANGED clock
           \/ tx.status = "reverted" /\ Stop("failed")
    /\ UNCHANGED <<chainVars, config, sent>>

\* getMintGroup reverts if there is no such group, and creators(0) if there are none.
ReadState ==
    /\ \/ /\ At("read")
          /\ IF GroupExists(Program[pc].name) THEN Advance /\ UNCHANGED clock
             ELSE Stop("failed")
       \/ /\ At("readCreators")
          /\ IF creators # <<>> THEN Advance /\ UNCHANGED clock ELSE Stop("failed")
    /\ UNCHANGED <<chainVars, config, sent>>

\* The script knows what its clock reads, and not how far it is ahead: no guard uses that.
ReadClock ==
    /\ At("clock")
    /\ \E skew \in Skews : clock' = [reads |-> now + skew, ahead |-> skew]
    /\ Advance
    /\ UNCHANGED <<chainVars, config, sent>>

Skip ==
    /\ At("nothing")
    /\ Advance
    /\ UNCHANGED <<chainVars, config, sent, clock>>

Throw ==
    /\ At("throw")
    /\ Stop("failed")
    /\ UNCHANGED <<chainVars, config, sent>>

\* The script reports that all went well.
Finish ==
    /\ Running
    /\ pc > Len(Program)
    /\ Stop("completed")
    /\ UNCHANGED <<chainVars, config, sent>>
-----------------------------------------------------------------------------
\* What a transaction of the operator does.
Perform(tx) ==
    \/ /\ tx.call = "deploy"
       /\ deployed' = TRUE
       /\ UNCHANGED <<vars, tokenBaseURI, implementation>>
    \/ /\ \/ tx.call = "setCreators" /\ SetCreators(Deployer, tx.split)
          \/ tx.call = "addMintGroup" /\ AddMintGroup(Deployer, tx.name, tx.terms)
          \/ tx.call = "updateMintGroup" /\ UpdateMintGroup(Deployer, tx.name, tx.terms)
       /\ UNCHANGED <<deployed, tokenBaseURI, implementation>>
    \/ /\ tx.call = "setBaseURI"
       /\ tokenBaseURI' = "script"
       /\ UNCHANGED <<vars, deployed, implementation>>
    \/ /\ tx.call = "upgradeTo"
       /\ implementation' = implementation + 1
       /\ UNCHANGED <<vars, deployed, tokenBaseURI>>

IsNext(i) == sent[i].status = "pending" /\ \A j \in 1 .. i - 1 : sent[j].status # "pending"

\* A block takes the transaction of the next nonce, whose calls come while no other runs.
Mine ==
    /\ Idle
    /\ \E i \in DOMAIN sent :
         /\ IsNext(i)
         /\ \/ /\ Accepts(sent[i].tx, now)
               /\ Perform(sent[i].tx)
               /\ sent' = [sent EXCEPT ![i].status = "success"]
            \/ /\ ~Accepts(sent[i].tx, now)
               /\ sent' = [sent EXCEPT ![i].status = "reverted"]
               /\ UNCHANGED chainVars
    /\ UNCHANGED <<config, scriptVars>>

\* Everybody else; the operator's account is used by the scripts alone.
OthersCall ==
    /\ deployed
    /\ \E sender \in Accounts \ {Deployer} : BuyerCall(sender) \/ InheritedCall(sender)
    /\ UNCHANGED <<deployed, tokenBaseURI, implementation, config, sent, scriptVars>>

\* A mint that has begun goes on.
MintGoesOn ==
    /\ PayCreator \/ FinishMint \/ Abort
    /\ UNCHANGED <<deployed, tokenBaseURI, implementation, config, sent, scriptVars>>

TimePasses ==
    /\ Tick
    /\ UNCHANGED <<deployed, tokenBaseURI, implementation, config, sent, scriptVars>>

\* What the event loop runs as soon as it can.
ScriptStep ==
    SendTx \/ Refused \/ AwaitReceipt \/ ReadState \/ ReadClock \/ Skip \/ Throw \/ Finish

ScriptsNext ==
    \/ \E script \in Scripts : Start(script)
    \/ ScriptStep
    \/ Interrupted
    \/ Mine
    \/ OthersCall
    \/ MintGoesOn
    \/ TimePasses

ScriptsSpec == ScriptsInit /\ [][ScriptsNext]_svars

\* A script that runs goes on, a call that was made ends, and a block takes what is in
\* the pool: strong fairness, for it waits between the steps of the calls of others.
FairScriptsSpec ==
    ScriptsSpec /\ WF_svars(ScriptStep) /\ WF_svars(MintGoesOn) /\ SF_svars(Mine)
-----------------------------------------------------------------------------
Transaction ==
    [call : {"deploy", "setBaseURI", "upgradeTo"}]
      \cup [call : {"setCreators"}, split : CreatorSplits]
      \cup [call : {"addMintGroup", "updateMintGroup"}, name : GroupNames, terms : GroupTerms]

Status == {"pending", "success", "reverted"}

ScriptsTypeOK ==
    /\ config \in Configs
    /\ deployed \in BOOLEAN
    /\ sent \in Seq([tx : Transaction, by : Scripts, at : Nat, status : Status])
    /\ run \in [script : Scripts, result : {"running", "failed", "completed"}]
                 \cup {[script |-> "none", result |-> "none"]}
    /\ pc \in 1 .. Len(Program) + 1
    /\ first \in 0 .. Len(sent)
    /\ clock \in [reads : Nat, ahead : Skews \cup {0}]
    /\ {runs, implementation} \subseteq Nat
    /\ tokenBaseURI \in {"config", "script"}

Completed(scripts) == run.script \in scripts /\ run.result = "completed"

NothingPending == \A i \in DOMAIN sent : sent[i].status # "pending"

IsGroupCall(tx) == tx.call \in {"addMintGroup", "updateMintGroup"}

\* An earlier transaction has added a group of that name.
Repeats(i) ==
    /\ sent[i].tx.call = "addMintGroup"
    /\ \E j \in 1 .. i - 1 :
         /\ sent[j].tx.call = "addMintGroup"
         /\ sent[j].tx.name = sent[i].tx.name
         /\ sent[j].status = "success"

(***************************************************************************)
(* A transaction that is taken by the node and then reverted is one whose  *)
(* start time passes while it waits, or the second of two groups of one    *)
(* name, which deploy-serica sends before the first is there: nothing else *)
(* a script sends is made invalid by what is mined before it.              *)
(***************************************************************************)
OnlyLateOrRepeated ==
    \A i \in DOMAIN sent :
      sent[i].status = "reverted" =>
        /\ IsGroupCall(sent[i].tx)
        /\ sent[i].tx.terms.startTime <= now \/ Repeats(i)

(***************************************************************************)
(* deploy-serica sets the creators before it adds a group, without waiting *)
(* for either: at no time can a token be sold whose price stays in the     *)
(* collection for want of creators, even if the script stops half-way.     *)
(***************************************************************************)
CreatorsBeforeGroups ==
    /\ sent # <<>>
    /\ sent[1].by = "deploy-serica"
    /\ config # <<>> /\ config[1].creators # <<>>
    /\ mintGroups # <<>>
    => creators # <<>>

(***************************************************************************)
(* update-mint-group and update-base-uri say that they are done when the   *)
(* collection has what they sent, though other transactions of the         *)
(* operator and calls of buyers come in between.                           *)
(***************************************************************************)
UpdatesReportTruth ==
    [][Finish =>
         /\ run.script = "update-mint-group" =>
              \A i \in {first + 1, first + 2} : GroupOf(sent[i].tx.name).terms = sent[i].tx.terms
         /\ run.script = "update-base-uri" => tokenBaseURI = "script"]_svars

(***************************************************************************)
(* After a completed update-mint-group the listed and the public sale are  *)
(* never open at once.                                                     *)
(***************************************************************************)
SalesApart ==
    Completed({"update-mint-group"}) =>
      ~(OnSale(GroupOf("whitelist")) /\ OnSale(GroupOf("public")))

(***************************************************************************)
(* update-mint-group starts the listed sale at the time it reads, and the  *)
(* collection takes later times only: while the operator's clock is not    *)
(* ahead of the chain's, the script never completes, whatever the delays   *)
(* between reading, simulating and mining.                                 *)
(***************************************************************************)
OnlyFastClocks == Completed({"update-mint-group"}) => clock.ahead > 0

(***************************************************************************)
(* A script ends: it does not wait for ever for a receipt.                 *)
(***************************************************************************)
ScriptsEnd == Running ~> ~Running

(***************************************************************************)
(* After a deployment that completed, every group of the file comes to be, *)
(* unless its start passed before its transaction was mined, and so do the *)
(* creators.                                                               *)
(***************************************************************************)
Settled ==
    \A i \in DOMAIN config :
      /\ config[i].terms # Unreadable
      /\ GroupExists(config[i].name) \/ config[i].terms.startTime <= now
      /\ config[1].creators # <<>> => creators # <<>>

DeploymentSettles == Completed(DeployScripts) ~> Settled
=============================================================================
