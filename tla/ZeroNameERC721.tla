---------------------------- MODULE ZeroNameERC721 ----------------------------
(***************************************************************************)
(* The ownership half of the zeroname collection                           *)
(* (src/src/utils/token/ZeroNameERC721.sol).  It differs from the warriors *)
(* in one thing: the warrior contract is an operator of every account, so  *)
(* that a name can be given to a warrior without an approval.              *)
(***************************************************************************)
EXTENDS Addresses

CONSTANTS
  WarriorContract,  \* the address of the warrior contract
  MaxNames          \* bound on the names ever minted

\* What the module takes for granted of its constants; ZeroSystem assumes it of
\* the collection it instantiates.
NamesAssumption ==
  /\ WarriorContract \notin Holders
  /\ MaxNames \in Nat

NameIds     == 1..MaxNames
NameHolders == Accounts \cup {WarriorContract}

VARIABLES
  nameOwner,      \* _ownerOf
  nameBalance,    \* _balanceOf
  nameApproved,   \* getApproved
  nameOperators   \* _isApprovedForAll, as the pairs <<owner, operator>> set to true

nameERC721Vars == <<nameOwner, nameBalance, nameApproved, nameOperators>>

NameERC721TypeOK ==
  /\ nameOwner \in [NameIds -> NameHolders \cup {NoOne}]
  /\ nameBalance \in [NameHolders -> Nat]
  /\ nameApproved \in [NameIds -> Users \cup {NoOne}]
  /\ nameOperators \subseteq Users \X Users

NameERC721Init ==
  /\ nameOwner = [id \in NameIds |-> NoOne]
  /\ nameBalance = [a \in NameHolders |-> 0]
  /\ nameApproved = [id \in NameIds |-> NoOne]
  /\ nameOperators = {}

NamesOf(a) == {id \in NameIds : nameOwner[id] = a}

isApprovedForAll(holder, operator) ==
  operator = WarriorContract \/ <<holder, operator>> \in nameOperators

approve(caller, spender, id) ==
  /\ caller = nameOwner[id] \/ isApprovedForAll(nameOwner[id], caller)
  /\ nameApproved' = [nameApproved EXCEPT ![id] = spender]
  /\ UNCHANGED <<nameOwner, nameBalance, nameOperators>>

setApprovalForAll(caller, operator, approved) ==
  /\ nameOperators' = IF approved THEN nameOperators \cup {<<caller, operator>>}
                                  ELSE nameOperators \ {<<caller, operator>>}
  /\ UNCHANGED <<nameOwner, nameBalance, nameApproved>>

\* Faults checked against transferFrom: the approval is kept; the balances
\* follow the caller.
transferKeepingApproval(caller, from, to, id) ==
  /\ from = nameOwner[id]
  /\ \/ caller = from
     \/ isApprovedForAll(from, caller)
     \/ caller = nameApproved[id]
  /\ nameBalance' = moved(nameBalance, from, to, 1)
  /\ nameOwner' = [nameOwner EXCEPT ![id] = to]
  /\ UNCHANGED <<nameApproved, nameOperators>>

transferCountedForCaller(caller, from, to, id) ==
  /\ from = nameOwner[id]
  /\ \/ caller = from
     \/ isApprovedForAll(from, caller)
     \/ caller = nameApproved[id]
  /\ nameBalance' = moved(nameBalance, caller, to, 1)
  /\ nameOwner' = [nameOwner EXCEPT ![id] = to]
  /\ nameApproved' = [nameApproved EXCEPT ![id] = NoOne]
  /\ UNCHANGED nameOperators

transferFrom(caller, from, to, id) ==
  /\ from = nameOwner[id]
  /\ \/ caller = from
     \/ isApprovedForAll(from, caller)
     \/ caller = nameApproved[id]
  /\ nameBalance' = moved(nameBalance, from, to, 1)
  /\ nameOwner' = [nameOwner EXCEPT ![id] = to]
  /\ nameApproved' = [nameApproved EXCEPT ![id] = NoOne]
  /\ UNCHANGED nameOperators

\* _batchMint, of which _mint is the case of one id.
batchMint(to, amount, lastMintedId) ==
  /\ nameBalance' = [nameBalance EXCEPT ![to] = @ + amount]
  /\ nameOwner' = [id \in NameIds |-> IF id \in (lastMintedId + 1)..(lastMintedId + amount)
                                        THEN to ELSE nameOwner[id]]
  /\ UNCHANGED <<nameApproved, nameOperators>>

mint(to, id) == batchMint(to, 1, id - 1)
==============================================================================
