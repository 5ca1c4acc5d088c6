---------------------------- MODULE WarriorERC721 ----------------------------
(***************************************************************************)
(* The ownership half of the warrior collection                            *)
(* (src/src/utils/token/WarriorERC721.sol): who owns an id, how many ids   *)
(* an account owns, and the two kinds of approval.                         *)
(***************************************************************************)
EXTENDS Addresses, Supply, FiniteSets

VARIABLES
  owner,            \* getWarriorData[id].owner
  warriorOwned,     \* getUserData[account].warriorOwned
  getApproved,      \* the one address approved for an id
  isApprovedForAll  \* the pairs <<owner, operator>> set to true

approvalVars == <<getApproved, isApprovedForAll>>
erc721Vars   == <<owner, warriorOwned, getApproved, isApprovedForAll>>

ERC721TypeOK ==
  /\ owner \in [Ids -> Holders]
  /\ warriorOwned \in [Holders -> Int]
  /\ getApproved \in [Ids -> Holders]
  /\ isApprovedForAll \subseteq Users \X Users

ERC721Init ==
  /\ owner = [id \in Ids |-> NoOne]
  /\ warriorOwned = [a \in Holders |-> 0]
  /\ getApproved = [id \in Ids |-> NoOne]
  /\ isApprovedForAll = {}

OwnedBy(a) == {id \in Ids : owner[id] = a}

approve(caller, spender, id) ==
  /\ caller = owner[id] \/ <<owner[id], caller>> \in isApprovedForAll
  /\ getApproved' = [getApproved EXCEPT ![id] = spender]
  /\ UNCHANGED <<owner, warriorOwned, isApprovedForAll>>

setApprovalForAll(caller, operator, approved) ==
  /\ isApprovedForAll' = IF approved THEN isApprovedForAll \cup {<<caller, operator>>}
                                     ELSE isApprovedForAll \ {<<caller, operator>>}
  /\ UNCHANGED <<owner, warriorOwned, getApproved>>

\* The authorization of transferFrom.
MayMove(caller, id) ==
  \/ caller = owner[id]
  \/ <<owner[id], caller>> \in isApprovedForAll
  \/ caller = getApproved[id]

mint(to, id) ==
  /\ warriorOwned' = [warriorOwned EXCEPT ![to] = @ + 1]
  /\ owner' = [owner EXCEPT ![id] = to]

\* A fault checked against batchMintEach: both batches start after the same id.
batchMintFromOneStart(amount, lastMintedId) ==
  /\ warriorOwned' = [a \in Holders |-> warriorOwned[a] + (IF a \in Reserves THEN amount ELSE 0)]
  /\ owner' = [id \in Ids |-> IF id \in (lastMintedId + 1)..(lastMintedId + amount)
                                THEN Community ELSE owner[id]]

\* _batchMint to the team and then to the community, as mintReservedWarrior
\* calls it: amount ids each, after lastMintedId.
batchMintEach(amount, lastMintedId) ==
  LET forTeam      == (lastMintedId + 1)..(lastMintedId + amount)
      forCommunity == (lastMintedId + amount + 1)..(lastMintedId + 2 * amount)
  IN  /\ warriorOwned' = [a \in Holders |-> warriorOwned[a] + (IF a = Team THEN amount ELSE 0)
                                                          + (IF a = Community THEN amount ELSE 0)]
      /\ owner' = [id \in Ids |-> IF id \in forTeam THEN Team
                                  ELSE IF id \in forCommunity THEN Community
                                  ELSE owner[id]]
==============================================================================
