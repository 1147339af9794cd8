-------------------------------- MODULE Token --------------------------------
(***************************************************************************)
(* The course token, contracts/token/src/lib.rs: balances, a supply and    *)
(* allowances.  The code tests no amount's sign and no balance's, only the *)
(* width of i128, so that a balance or an allowance can be overdrawn.      *)
(***************************************************************************)
EXTENDS Integers, FiniteSets, FiniteSetsExt

CONSTANTS
    Holders, Spenders,
    TransferAmounts,
    Expirations,                \* the ledgers that allowances expire after
    I128_MAX,                   \* 2^127 - 1 in the code
    MaxSequence                 \* bound of the ledger's number

TokenAssumption ==
    /\ IsFiniteSet(Holders)
    /\ TransferAmounts \subseteq -(I128_MAX + 1)..I128_MAX /\ Expirations \subseteq Nat
    /\ I128_MAX \in Nat /\ MaxSequence \in Nat

VARIABLES
    initialized,        \* Admin is set
    totalSupply,        \* TotalSupply
    balances,           \* Balance
    allowance,          \* AllowanceValue by owner and spender, with its default
    sequence,           \* the ledger's number
    minted,             \* history: all that was ever minted
    approved, moved     \* history: the amount last approved, what was moved since

supplyVars == <<initialized, totalSupply, minted>>
allowanceVars == <<allowance, approved, moved>>
vars == <<supplyVars, balances, allowanceVars, sequence>>

I128 == -(I128_MAX + 1)..I128_MAX
AllowanceDataKey == Holders \X Spenders
AllowanceValue == [amount : I128, expiration_ledger : Nat]

TypeOK ==
    /\ initialized \in BOOLEAN
    /\ totalSupply \in I128
    /\ balances \in [Holders -> I128]
    /\ allowance \in [AllowanceDataKey -> AllowanceValue]
    /\ sequence \in Nat
    /\ minted \in Int
    /\ approved \in [AllowanceDataKey -> Int] /\ moved \in [AllowanceDataKey -> Int]

Init ==
    /\ initialized = FALSE
    /\ totalSupply = 0
    /\ balances = [h \in Holders |-> 0]
    /\ allowance = [k \in AllowanceDataKey |-> [amount |-> 0, expiration_ledger |-> 0]]
    /\ sequence = 1
    /\ minted = 0
    /\ approved = [k \in AllowanceDataKey |-> 0] /\ moved = [k \in AllowanceDataKey |-> 0]

\* By anyone, who becomes the administrator, and again at any time: the balances
\* stay, the supply starts from zero.
Initialize ==
    /\ initialized' = TRUE
    /\ totalSupply' = 0
    /\ UNCHANGED <<minted, balances, allowanceVars, sequence>>

Mint(to, amount) ==
    /\ initialized
    /\ totalSupply + amount \in I128 /\ balances[to] + amount \in I128
    /\ totalSupply' = totalSupply + amount
    /\ balances' = [balances EXCEPT ![to] = @ + amount]
    /\ minted' = minted + amount
    /\ UNCHANGED <<initialized, allowanceVars, sequence>>

\* Mutant of Transferred: both balances are read before either is written.
TransferredStale(from, to, amount) ==
    [[balances EXCEPT ![from] = @ - amount] EXCEPT ![to] = balances[to] + amount]

\* The recipient's balance is read after the sender's is written.
Transferred(from, to, amount) ==
    [[balances EXCEPT ![from] = @ - amount] EXCEPT ![to] = @ + amount]

Transfer(from, to, amount) ==
    /\ balances[from] - amount \in I128
    /\ Transferred(from, to, amount)[to] \in I128
    /\ balances' = Transferred(from, to, amount)
    /\ UNCHANGED <<supplyVars, sequence>>

\* The owner's own transfer.
TransferOwn(from, to, amount) ==
    /\ Transfer(from, to, amount)
    /\ UNCHANGED allowanceVars

\* transfer asks for the owner's authorization as well as the spender's.
TransferFrom(spender, from, to, amount) ==
    LET key == <<from, spender>>
    IN  /\ allowance[key].expiration_ledger >= sequence
        /\ allowance[key].amount - amount \in I128
        /\ Transfer(from, to, amount)
        /\ allowance' = [allowance EXCEPT ![key].amount = @ - amount]
        /\ moved' = [moved EXCEPT ![key] = @ + amount]
        /\ UNCHANGED approved

Approve(from, spender, amount, expiration_ledger) ==
    LET key == <<from, spender>>
    IN  /\ allowance' = [allowance EXCEPT ![key] =
             [amount |-> amount, expiration_ledger |-> expiration_ledger]]
        /\ approved' = [approved EXCEPT ![key] = amount]
        /\ moved' = [moved EXCEPT ![key] = 0]
        /\ UNCHANGED <<supplyVars, balances, sequence>>

LedgerCloses ==
    /\ sequence < MaxSequence
    /\ sequence' = sequence + 1
    /\ UNCHANGED <<supplyVars, balances, allowanceVars>>

Next ==
    \/ Initialize
    \/ \E h \in Holders, a \in TransferAmounts : Mint(h, a)
    \/ \E h, k \in Holders, a \in TransferAmounts : TransferOwn(h, k, a)
    \/ \E d \in Spenders, h, k \in Holders, a \in TransferAmounts : TransferFrom(d, h, k, a)
    \/ \E h \in Holders, d \in Spenders, a \in TransferAmounts, e \in Expirations :
          Approve(h, d, a, e)
    \/ LedgerCloses

Spec == Init /\ [][Next]_vars

-----------------------------------------------------------------------------
(* Properties. *)

\* Transfers to oneself, overdrafts, renewed approvals and new administrators
\* included, the balances add up to what was minted, and an allowance is what
\* was last approved less what was moved by it (mint, transfer, transfer_from).
TokensAccounted ==
    /\ SumFunctionOnSet(balances, Holders) = minted
    /\ \A k \in AllowanceDataKey : allowance[k].amount + moved[k] = approved[k]

=============================================================================
