---------------------------- MODULE PluginRunner ----------------------------
(***************************************************************************)
(* The runner that the pytest plugin shares: every test and every fixture  *)
(* that is set up holds a lease of it; the first one makes it, the last    *)
(* one closes it.  Fixtures of different scopes end in any order, and may  *)
(* ask for another backend than the runner has.                            *)
(***************************************************************************)
EXTENDS Naturals, FiniteSets, Sequences

CONSTANTS
  Item,         \* tests and fixtures
  Backend,
  NoBackend,
  MaxRunners    \* bound: the runners made

VARIABLES
  items,     \* of each test and fixture: whether it holds a lease, and of which runner
  runners,   \* history: of each runner, its backend, whether it is open, and whether
             \* its closing raised
  current,   \* _current_runner: a number, or 0 for None
  leases,    \* _runner_leases
  stack,     \* _runner_stack: whether it is to reset the library
  library    \* sniffio.current_async_library_cvar

pluginVars == <<items, runners, current, leases, stack, library>>

PluginInit ==
  /\ items = [i \in Item |-> [inside |-> FALSE, given |-> 0]]
  /\ runners = <<>> /\ current = 0 /\ leases = 0 /\ stack = FALSE
  /\ library \in Backend \cup {NoBackend}

\* get_runner() up to the yield
Borrow(i, backend) ==
  /\ ~items[i].inside
  /\ IF current # 0
     THEN UNCHANGED <<runners, current, stack, library>>
     ELSE /\ Len(runners) < MaxRunners
          /\ runners' = Append(runners, [backend |-> backend, open |-> TRUE, failed |-> FALSE])
          /\ current' = Len(runners) + 1
          /\ stack' = (library = NoBackend)
          /\ library' = IF library = NoBackend THEN backend ELSE library
  /\ leases' = leases + 1
  /\ items' = [items EXCEPT ![i] = [inside |-> TRUE, given |-> current']]

\* create_test_runner() raises: the library stays set, with nothing to reset it.
RunnerFails(i, backend) ==
  /\ ~items[i].inside /\ current = 0
  /\ stack' = (library = NoBackend)
  /\ library' = IF library = NoBackend THEN backend ELSE library
  /\ UNCHANGED <<items, runners, current, leases>>

\* A mutant: the runner is closed as soon as a single lease is left.
LastButOne == leases <= 2
LastOne == leases = 1

\* The end of a test, or the teardown of a fixture.  When _runner_stack.close()
\* raises, the runner is closed, or as good as closed, and stays the current one;
\* closing the emptied stack once more does not raise.
GiveBack(i, raises) ==
  /\ items[i].inside
  /\ raises => LastOne /\ runners[current].open
  /\ leases' = leases - 1
  /\ items' = [items EXCEPT ![i] = [inside |-> FALSE, given |-> 0]]
  /\ IF LastOne
     THEN /\ runners' = [runners EXCEPT ![current].open = FALSE, ![current].failed = @ \/ raises]
          /\ library' = IF stack THEN NoBackend ELSE library
          /\ stack' = FALSE
          /\ current' = IF raises THEN current ELSE 0
     ELSE UNCHANGED <<runners, current, stack, library>>

PluginNext ==
  \/ \E i \in Item, backend \in Backend : Borrow(i, backend) \/ RunnerFails(i, backend)
  \/ \E i \in Item, raises \in BOOLEAN : GiveBack(i, raises)

-----------------------------------------------------------------------------
\* Whoever holds a lease has the same runner as all the others, of the backend of the
\* first of them, and it is open, unless its closing by an earlier last one raised;
\* when the last one leaves, no runner is open.
RunnerShared ==
  /\ \A i \in Item : items[i].inside =>
       items[i].given = current /\ (runners[current].open \/ runners[current].failed)
  /\ leases = Cardinality({i \in Item : items[i].inside})
  /\ \A r \in DOMAIN runners : runners[r].open => r = current /\ leases > 0
  /\ current = 0 => leases = 0
=============================================================================
