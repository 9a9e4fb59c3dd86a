------------------------------- MODULE MC_Launch ------------------------------
(* Every way to launch that differs in what refuses it or where it listens,    *)
(* without requests; and servers under each policy, with two.                  *)
EXTENDS Launch, TLC

CONSTANTS q1, q2, w1, w2, alice, bob

TwoRequests == {q1, q2}
TwoWorkers == {w1, w2}
TwoIdentities == {alice, bob}

\* A token of either, and none.
Tokens ==
  {[scheme |-> "bearer", token |-> "good", id |-> i] : i \in {alice, bob}}
    \cup {[scheme |-> "other", token |-> "good", id |-> alice]}

Plain == [entry |-> "cli", transport |-> "streamable-http", host |-> "legal", port |-> "legal",
          dir |-> "found", spec |-> "none", prefix |-> FALSE, longName |-> FALSE, key |-> "good",
          requires |-> TRUE, exempt |-> {"plain"}, explorer |-> FALSE, under |-> "own",
          execute |-> FALSE, store |-> TRUE, hooks |-> TRUE, visitors |-> {}]
Empty == [transport |-> Unset, host |-> Unset, port |-> Unset, explorer |-> Unset, under |-> Unset,
          requires |-> Unset, openapi |-> FALSE]

\* What the command line may be refused for.
Arguments ==
  {[launch |-> [Plain EXCEPT !.port = p, !.dir = d, !.spec = s, !.prefix = x, !.longName = n,
                             !.key = k],
    bus |-> [Empty EXCEPT !.openapi = o]] :
     p \in {"legal", "outOfRange"}, d \in {"none", "found", "missing"},
     s \in {"none", "loads", "fails", "badHeader"}, x \in BOOLEAN, n \in BOOLEAN,
     k \in {"none", "blank", "missing"}, o \in BOOLEAN}

\* Where it listens.
Addresses ==
  {[launch |-> [Plain EXCEPT !.entry = e, !.transport = t, !.host = h, !.port = p,
                             !.store = b, !.hooks = b],
    bus |-> [Empty EXCEPT !.transport = u, !.host = v, !.port = r]] :
     e \in {"cli", "serve", "embed"}, t \in Transports \cup {"unknown"}, h \in {"legal", "empty"},
     p \in {"legal", "outOfRange"}, b \in BOOLEAN,
     u \in Transports \cup {"unknown", Unset}, v \in {"legal", Unset},
     r \in {"legal", "outOfRange", Unset}}

\* Where the explorer is mounted.
Prefixes ==
  {[launch |-> [Plain EXCEPT !.entry = e, !.transport = t, !.explorer = x, !.under = u],
    bus |-> [Empty EXCEPT !.explorer = y, !.under = v]] :
     e \in {"cli", "serve", "embed"}, t \in {"stdio", "sse"}, x \in BOOLEAN,
     u \in {"own", "shared", "bare"}, y \in BOOLEAN \cup {Unset},
     v \in {"own", "shared", "bare", Unset}}

\* Who may call what.
Visited(e, t, k, r, x) == [Plain EXCEPT !.entry = e, !.transport = t, !.key = k, !.requires = r,
  !.explorer = x, !.execute = TRUE, !.store = FALSE, !.hooks = FALSE, !.visitors = TwoRequests]
Identified ==
  {[launch |-> l, bus |-> Empty] : l \in {
     Visited("cli", "sse", "good", TRUE, TRUE), Visited("cli", "streamable-http", "good", TRUE, TRUE),
     Visited("cli", "sse", "good", FALSE, FALSE), Visited("serve", "streamable-http", "good", TRUE, TRUE),
     Visited("serve", "sse", "none", TRUE, TRUE)}}
  \cup {[launch |-> Visited("cli", "streamable-http", "good", FALSE, FALSE),
         bus |-> [Empty EXCEPT !.requires = TRUE]]}
  \cup {[launch |-> [Visited("serve", "streamable-http", "good", TRUE, TRUE) EXCEPT !.under = u],
         bus |-> [Empty EXCEPT !.under = v]] :
           <<u, v>> \in {<<"own", "shared">>, <<"shared", "own">>}}

AllSituations == Arguments \cup Addresses \cup Prefixes \cup Identified
AllAlike == Permutations(TwoRequests) \cup Permutations(TwoWorkers) \cup Permutations(TwoIdentities)

StdioOrHttp == {[Empty EXCEPT !.transport = t] : t \in {"stdio", "sse"}}
==============================================================================
