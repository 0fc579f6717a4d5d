------------------------------- MODULE RunVars -------------------------------
(***************************************************************************)
(* RunVar: variables that belong to the event loop that runs, several of   *)
(* which may run at a time, each in a thread of its own.  A loop keeps the *)
(* values that were set in it by name; set() returns a token for reset().  *)
(***************************************************************************)
EXTENDS Naturals, FiniteSets, Sequences

CONSTANTS
  Var,
  RunLoop,
  Value,
  NoValue,
  MaxTokens   \* bound: calls of set()

VARIABLES
  runVarsOf,   \* _run_vars: of each loop that has one, the values that were set
  tokens,      \* all tokens: the variable, the value before, redeemed or not; history: the
               \* loop of set(), whether that is gone, and the value after
  strays       \* history: of each loop, the variables for which a token was used that was
               \* not the latest one of that loop, or was one of its own used elsewhere

runVarVars == <<runVarsOf, tokens, strays>>

RunVarInit ==
  /\ runVarsOf = [l \in RunLoop |-> [known |-> FALSE, values |-> [v \in Var |-> NoValue]]]
  /\ tokens = <<>>
  /\ strays = [l \in RunLoop |-> {}]

\* _current_vars makes the dictionary of a loop when it is first asked for.
CurrentVars(l) == [runVarsOf[l] EXCEPT !.known = TRUE]

Get(l, v) == /\ runVarsOf' = [runVarsOf EXCEPT ![l] = CurrentVars(l)]
             /\ UNCHANGED <<tokens, strays>>

Set(l, v, value) ==
  /\ Len(tokens) < MaxTokens
  /\ tokens' = Append(tokens, [var |-> v, loop |-> l, before |-> runVarsOf[l].values[v],
                               after |-> value, redeemed |-> FALSE, gone |-> FALSE])
  /\ runVarsOf' = [runVarsOf EXCEPT ![l] = [CurrentVars(l) EXCEPT !.values[v] = value]]
  /\ UNCHANGED strays

\* The tokens of a variable that were made in a loop that is there, and not redeemed
Open(l, v) ==
  {i \in DOMAIN tokens : /\ tokens[i].loop = l /\ ~tokens[i].gone
                         /\ tokens[i].var = v /\ ~tokens[i].redeemed}

Latest(l, v, i) == i \in Open(l, v) /\ \A j \in Open(l, v) : j <= i

\* reset() raises an error for a token of another variable, or one that was used.
MayRedeem(v, i) == tokens[i].var = v /\ ~tokens[i].redeemed

\* The value before goes to the loop that runs: reset() asks neither where the token
\* was made nor whether there are later ones.
Reset(l, v, i) ==
  /\ MayRedeem(v, i)
  /\ runVarsOf' = [runVarsOf EXCEPT
       ![l] = [CurrentVars(l) EXCEPT !.values[v] = tokens[i].before]]
  /\ tokens' = [tokens EXCEPT ![i].redeemed = TRUE]
  /\ strays' = [k \in RunLoop |->
       IF ~Latest(l, v, i) /\ (k = l \/ i \in Open(k, v))
       THEN strays[k] \union {v} ELSE strays[k]]

\* The loop is collected, and its values with it; its tokens may still be used.
LoopGone(l) ==
  /\ runVarsOf[l].known
  /\ runVarsOf' = [runVarsOf EXCEPT ![l] = [known |-> FALSE, values |-> [v \in Var |-> NoValue]]]
  /\ tokens' = [i \in DOMAIN tokens |-> [tokens[i] EXCEPT !.gone = @ \/ tokens[i].loop = l]]
  /\ strays' = [strays EXCEPT ![l] = {}]

RunVarNext ==
  \E l \in RunLoop, v \in Var :
    \/ Get(l, v)
    \/ \E value \in Value : Set(l, v, value)
    \/ \E i \in DOMAIN tokens : Reset(l, v, i)
    \/ LoopGone(l)

-----------------------------------------------------------------------------
\* A variable has, in each loop, the value that was set there last and not reset since,
\* whatever is set in other loops, as long as the tokens are used as those of a
\* contextvars.ContextVar are: in their own loop, the latest first.  A token that is
\* not carries a value into the loop where it is used.
VariablesPerLoop ==
  \A l \in RunLoop : \A v \in Var \ strays[l] :
    LET open == Open(l, v)
    IN runVarsOf[l].values[v] =
         IF open = {} THEN NoValue ELSE tokens[CHOOSE i \in open : \A j \in open : j <= i].after
=============================================================================
