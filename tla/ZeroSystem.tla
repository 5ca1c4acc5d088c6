------------------------------ MODULE ZeroSystem ------------------------------
(***************************************************************************)
(* The three contracts together: warriors, ZERO and zeronames.  A name is  *)
(* paid for in ZERO, from the virtual balance the warrior contract keeps   *)
(* or in tokens, and can be given to a warrior for good.  Each call is one *)
(* transaction over all three.                                             *)
(***************************************************************************)
EXTENDS ZeroWarrior

CONSTANTS
  WarriorContract, getZeroNamePrice(_, _), CommunityDivisor,
  OtherNFTs,             \* tokens of contracts outside the system
  \* Inputs and bounds of an instance.
  MaxNames, NameBatches, NameSpenders, MaxCopies

VARIABLES
  currentId, numMintedForCommunity,
  nameOwner, nameBalance, nameApproved, nameOperators,
  copies   \* getCopiesOfZeroWarrioredByWarrior[warriorId][nft]

Names == INSTANCE ZeroName WITH Spenders <- NameSpenders

NFTs == Names!NameIds \cup OtherNFTs

nameVars == <<nameOwner, nameBalance, nameApproved, nameOperators, currentId,
              numMintedForCommunity>>

systemVars == <<vars, nameVars, copies>>

\* A name is a number and any other token is not; every price of a name is an
\* amount the warrior contract can be asked for.
ASSUME SystemAssumption ==
  /\ Names!ZeroNameAssumption
  /\ OtherNFTs \cap Nat = {}
  /\ MaxCopies \in Nat
  /\ \A elapsed \in 0..MaxNow, sold \in 0..MaxNames :
       getZeroNamePrice(toDaysWad(elapsed), sold) \in Amounts

SystemInit ==
  /\ Init
  /\ Names!NamesInit
  /\ copies = [id \in Ids |-> [nft \in NFTs |-> 0]]

\* Faults checked against buyZeroName: the buyer is charged the most it agreed
\* to; the price is read after the mint.
buyAtMaxPrice(user, maxPrice, useVirtualBalance) ==
  /\ Names!mintFromZero(user, maxPrice)
  /\ \/ useVirtualBalance /\ burnZeroForZeroName(user, maxPrice)
     \/ ~useVirtualBalance /\ payForZeroName(user, maxPrice)
  /\ UNCHANGED copies

buyAtNextPrice(user, maxPrice, useVirtualBalance) ==
  LET price == getZeroNamePrice(toDaysWad(now - mintStart), Names!Sold + 1)
  IN  /\ Names!mintFromZero(user, maxPrice)
      /\ \/ useVirtualBalance /\ burnZeroForZeroName(user, price)
         \/ ~useVirtualBalance /\ payForZeroName(user, price)
      /\ UNCHANGED copies

\* ZeroName.mintFromZero with the call it makes to the warrior contract or to
\* the token.
buyZeroName(user, maxPrice, useVirtualBalance) ==
  /\ Names!mintFromZero(user, maxPrice)
  /\ \/ useVirtualBalance /\ burnZeroForZeroName(user, Names!zeronamePrice)
     \/ ~useVirtualBalance /\ payForZeroName(user, Names!zeronamePrice)
  /\ UNCHANGED copies

\* A fault checked against warrior: what the caller does not own can be given.
warriorOfAnyone(user, warriorId, nft) ==
  /\ owner[warriorId] = user
  /\ copies' = [copies EXCEPT ![warriorId][nft] = @ + 1]
  /\ \/ nft \in Names!NameIds /\ Names!giveOfAnyone(nft)
     \/ nft \in OtherNFTs /\ copies[warriorId][nft] < MaxCopies /\ UNCHANGED nameVars
  /\ UNCHANGED vars

\* A name leaves its owner, who must be the caller.  What a foreign contract
\* does is unknown: it may let one token be given many times.
warrior(user, warriorId, nft) ==
  /\ owner[warriorId] = user
  /\ copies' = [copies EXCEPT ![warriorId][nft] = @ + 1]
  /\ \/ nft \in Names!NameIds /\ Names!giveToWarrior(user, nft)
     \/ nft \in OtherNFTs /\ copies[warriorId][nft] < MaxCopies /\ UNCHANGED nameVars
  /\ UNCHANGED vars

SystemNext ==
  \/ WarriorNext /\ UNCHANGED <<nameVars, copies>>
  \/ Names!NamesAlone /\ UNCHANGED <<vars, copies>>
  \/ \E user \in Users, maxPrice \in MaxPrices, useVirtualBalance \in BOOLEAN :
       buyZeroName(user, maxPrice, useVirtualBalance)
  \/ \E user \in Users, warriorId \in Ids, nft \in NFTs : warrior(user, warriorId, nft)

SystemSpec == SystemInit /\ [][SystemNext]_systemVars

-------------------------------------------------------------------------------
(* Properties *)

\* A name is held by one warrior at most, and once; while the count says so
\* the warrior contract owns the name, though it takes it without an approval
\* and counts before it transfers.
HeldOnce ==
  \A nft \in Names!NameIds : \A w \in Ids :
    copies[w][nft] > 0 =>
      /\ copies[w][nft] = 1
      /\ nameOwner[nft] = WarriorContract
      /\ \A v \in Ids \ {w} : copies[v][nft] = 0

WealthOfAll == SumFunction([a \in Holders |-> Wealth(a)])

\* A sale of names takes their price, as it was when the call was made, from
\* what all accounts hold together, and nothing else the name contract does
\* costs anybody anything.
NamesArePaid ==
  [][/\ Names!Sold' # Names!Sold
          => WealthOfAll' = WealthOfAll - (Names!Sold' - Names!Sold) * Names!zeronamePrice
     /\ nameVars' # nameVars /\ Names!Sold' = Names!Sold
          => WealthOfAll' = WealthOfAll]_systemVars

\* The warrior contract among the others behaves as it does alone: what holds
\* of ZeroWarrior holds of the system.
RefinesZeroWarrior == Spec

\* So does the name contract: its sales, approvals and transfers are those of
\* ZeroName, and no call of the warrior contract changes a name otherwise.
RefinesZeroName == Names!Spec

\* What ZeroName promises holds of the names that are paid for and given away
\* here: their owners' balances count them, the community keeps to its share,
\* and no approval or operator takes a given name back.
NamesCounted == Names!NamesCounted

CommunityShareKept == Names!CommunityShareKept

GivenForGood == Names!GivenForGood
==============================================================================
