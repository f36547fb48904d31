--------------------------- MODULE LoginRateLimit ---------------------------
(***************************************************************************)
(* The login rate limit of main.go: a sliding window of attempts per       *)
(* address, pruned by every attempt and by a sweep in the background.      *)
(*                                                                         *)
(* The time stamps of an address are a set of attempt numbers, as the code *)
(* only filters and counts them; log says whose attempt each number was    *)
(* and when, and keeps those that the code has forgotten.                  *)
(***************************************************************************)
EXTENDS FiniteSets, Integers, Sequences

CONSTANTS
  IP,                 \* client addresses
  MaxLoginAttempts,   \* maxLoginAttempts
  LoginBlockWindow,   \* loginBlockWindow
  MaxTime,            \* bound on the clock
  MaxAttempts         \* bound on the attempts that are let through

ASSUME LimitAssumption ==
  /\ MaxLoginAttempts \in Nat \ {0} /\ LoginBlockWindow \in Nat \ {0}
  /\ MaxTime \in Nat /\ MaxAttempts \in Nat

VARIABLES
  now,            \* the clock
  loginAttempts,  \* the attempts remembered for each address; {} also for no entry
  log,            \* every attempt let through: address and time
  refused         \* addresses whose last attempt was refused

vars == <<now, loginAttempts, log, refused>>

Init ==
  /\ now = 0
  /\ loginAttempts = [ip \in IP |-> {}]
  /\ log = <<>>
  /\ refused = {}

\* Fault: nothing is pruned.
Unpruned(S) == S

\* The time stamps with t.After(cutoff).
Recent(S) == {i \in S : log[i].at > now - LoginBlockWindow}

\* Fault: one attempt too many.
OneTooMany(S) == Cardinality(S) <= MaxLoginAttempts

Admits(S) == Cardinality(S) < MaxLoginAttempts

Attempt == [ip : IP, at : Nat]

\* checkLoginRateLimit: the attempt is remembered and goes on to the password.
Admit(ip) ==
  /\ Admits(Recent(loginAttempts[ip]))
  /\ Len(log) < MaxAttempts
  /\ log' = Append(log, [ip |-> ip, at |-> now])
  /\ loginAttempts' = [loginAttempts EXCEPT ![ip] = Recent(@) \cup {Len(log) + 1}]
  /\ refused' = refused \ {ip}
  /\ UNCHANGED now

\* ... or is answered with 429 and not remembered.
Refuse(ip) ==
  /\ ~Admits(Recent(loginAttempts[ip]))
  /\ loginAttempts' = [loginAttempts EXCEPT ![ip] = Recent(@)]
  /\ refused' = refused \cup {ip}
  /\ UNCHANGED <<now, log>>

\* clearExpiredLoginAttempts, one round over all addresses under the lock.
ClearExpired ==
  /\ loginAttempts' = [ip \in IP |-> Recent(loginAttempts[ip])]
  /\ UNCHANGED <<now, log, refused>>

Tick ==
  /\ now < MaxTime
  /\ now' = now + 1
  /\ UNCHANGED <<loginAttempts, log, refused>>

Next ==
  \/ \E ip \in IP : Admit(ip) \/ Refuse(ip)
  \/ ClearExpired
  \/ Tick

Spec == Init /\ [][Next]_vars

-----------------------------------------------------------------------------
(* Properties.                                                             *)

\* The attempts of an address that were let through in the window after w.
InWindow(ip, w) ==
  {i \in DOMAIN log : log[i].ip = ip /\ w < log[i].at /\ log[i].at <= w + LoginBlockWindow}

LastWindow(ip) == InWindow(ip, now - LoginBlockWindow)

\* The type of every variable.
TypeOK ==
  /\ now \in Nat
  /\ loginAttempts \in [IP -> SUBSET Nat]
  /\ log \in Seq(Attempt)
  /\ refused \subseteq IP

\* What pruning keeps: all of the window and nothing of another address.
NothingForgottenTooSoon ==
  \A ip \in IP : /\ LastWindow(ip) \subseteq loginAttempts[ip]
                 /\ \A i \in loginAttempts[ip] : i \in DOMAIN log /\ log[i].ip = ip
NoFutureAttempt == \A i \in DOMAIN log : log[i].at <= now

\* In no window of fifteen minutes, wherever it begins, is one address let
\* through more than five times, however sweeps and refusals fall.
AtMostMaxPerWindow ==
  \A ip \in IP : \A w \in -LoginBlockWindow..now : Cardinality(InWindow(ip, w)) <= MaxLoginAttempts

\* An address is refused only after five attempts let through in the last
\* fifteen minutes: refused attempts do not prolong the refusal, and those of
\* other addresses do not count.
RefusedOnlyWhenFull ==
  [][\A ip \in IP : Refuse(ip) => Cardinality(LastWindow(ip)) >= MaxLoginAttempts]_vars

IInv == TypeOK /\ NothingForgottenTooSoon /\ NoFutureAttempt /\ AtMostMaxPerWindow
=============================================================================
