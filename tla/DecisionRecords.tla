-------------------------- MODULE DecisionRecords --------------------------
(***************************************************************************)
(* The journal records OptimizeEpoch produces (steps 3 to 8 of             *)
(* internal/service/orchestrator.go).                                      *)
(***************************************************************************)
EXTENDS Naturals, Sequences, FiniteSets

CONSTANTS
  Calls,     \* requests, each one OptimizeEpoch call
  Policies,  \* a policy's records form the run "RUN-<policy>"
  Epochs,    \* epochs of the states the requests carry
  Requests   \* what a call may ask for: a policy, and a state of some epoch

ASSUME ServiceAssumption ==
  /\ Calls # {} /\ Policies # {} /\ Epochs # {}
  /\ Requests \subseteq [policy : Policies, epoch : Epochs]

\* GenerateDecisionID: policy, epoch and a sequence number.
DecisionID == [policy : Policies, epoch : Epochs, num : Nat]

\* What a record's digest covers; state stands for the hashes of the initial
\* state, the action and the next state, which differ from call to call.
Body == [run : Policies, seq : Nat, id : DecisionID, state : Calls]

INSTANCE MerkleChain WITH RunIDs <- Policies, Bodies <- Body

\* Values of a call's variables before OptimizeEpoch sets them.
NoID == [policy |-> CHOOSE p \in Policies : TRUE,
         epoch |-> CHOOSE e \in Epochs : TRUE, num |-> 0]
NoRecord == Seal(Genesis, [run |-> NoID.policy, seq |-> 0, id |-> NoID,
                           state |-> CHOOSE c \in Calls : TRUE])
=============================================================================
