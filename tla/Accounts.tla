------------------------------ MODULE Accounts ------------------------------
(***************************************************************************)
(* Accounts and refresh-token families (lib/auth accounts.go): the methods *)
(* of Store.  Each runs under Store.mu and is a function of the store's    *)
(* value m = [acc, fam]; the write of the file follows in the caller.      *)
(***************************************************************************)
EXTENDS Naturals, FiniteSets

CONSTANTS
  Users,      \* user names
  Admin,      \* BootstrapAdmin
  NFams,      \* bound: refresh families
  MaxGen      \* bound: tokens of one family

ASSUME AccountsAssumption ==
  /\ IsFiniteSet(Users) /\ Admin \in Users
  /\ NFams \in Nat \ {0} /\ MaxGen \in Nat \ {0}

Fams == 1..NFams
NoSecret == 0

\* A password and a secret are numbers; a code is good for the secret it is made from.
\* proven is a ghost: a code has confirmed the active secret.
Account(class, pass) ==
  [in |-> TRUE, class |-> class, pass |-> pass, dis |-> FALSE,
   totp |-> NoSecret, pend |-> NoSecret, proven |-> TRUE]
NoAccount == [Account("data", 0) EXCEPT !.in = FALSE]

\* A token is its family and its generation; 0 is the empty PreviousHash.
Token == Fams \X (1..MaxGen)
NewFam(u) == [user |-> u, cur |-> 1, prev |-> 0, revoked |-> FALSE, expired |-> FALSE]
NoFam == [user |-> "none", cur |-> 0, prev |-> 0, revoked |-> TRUE, expired |-> TRUE]

EmptyStore == [acc |-> [u \in Users |-> NoAccount], fam |-> [f \in Fams |-> NoFam]]

Enabled(a) == a.in /\ a.class = "admin" /\ ~a.dis

\* Mutant: the disabled ones count as well.
CountEnabledAdminsAll(m) == Cardinality({u \in Users : m.acc[u].in /\ m.acc[u].class = "admin"})

\* countEnabledAdminsLocked.
CountEnabledAdmins(m) == Cardinality({u \in Users : Enabled(m.acc[u])})

Ok(m) == [ok |-> TRUE, m |-> m]
Err(m) == [ok |-> FALSE, m |-> m]

Create(m, u, class, pass) ==
  IF m.acc[u].in THEN Err(m) ELSE Ok([m EXCEPT !.acc[u] = Account(class, pass)])

\* mutate, for the methods whose check is the argument can.
Mutate(m, u, can, a) == IF m.acc[u].in /\ can THEN Ok([m EXCEPT !.acc[u] = a]) ELSE Err(m)

SetPassword(m, u, pass) == Mutate(m, u, TRUE, [m.acc[u] EXCEPT !.pass = pass])

\* The guard of SetClass, SetDisabled and Delete.
LastAdmin(m, u) == Enabled(m.acc[u]) /\ CountEnabledAdmins(m) <= 1

SetClass(m, u, class) ==
  Mutate(m, u, ~(class # "admin" /\ LastAdmin(m, u)), [m.acc[u] EXCEPT !.class = class])

SetDisabled(m, u, dis) ==
  Mutate(m, u, ~(dis /\ LastAdmin(m, u)), [m.acc[u] EXCEPT !.dis = dis])

Delete(m, u) ==
  IF ~m.acc[u].in \/ u = Admin \/ LastAdmin(m, u) THEN Err(m)
  ELSE Ok([acc |-> [m.acc EXCEPT ![u] = NoAccount],
           fam |-> [f \in Fams |-> IF m.fam[f].user = u THEN NoFam ELSE m.fam[f]]])

StageTOTP(m, u, secret, replacing) ==
  Mutate(m, u, m.acc[u].totp = NoSecret \/ replacing, [m.acc[u] EXCEPT !.pend = secret])

\* ConfirmTOTP promotes the secret that is pending now; code is the one that was checked.
ConfirmTOTP(m, u, code) ==
  Mutate(m, u, m.acc[u].pend # NoSecret,
         [m.acc[u] EXCEPT !.totp = m.acc[u].pend, !.pend = NoSecret,
                          !.proven = (code = m.acc[u].pend)])

DisableTOTP(m, u) ==
  Mutate(m, u, m.acc[u].totp # NoSecret, [m.acc[u] EXCEPT !.totp = NoSecret, !.pend = NoSecret,
                                                          !.proven = TRUE])

NewFamily(m, f, u) == Ok([m EXCEPT !.fam[f] = NewFam(u)])

Rotated(fam) == [fam EXCEPT !.prev = fam.cur, !.cur = @ + 1, !.expired = FALSE]

\* Rotate; what says which of the outcomes it is.
Rotate(m, t) ==
  LET f == t[1]
      fam == m.fam[f]
  IN CASE ~fam.revoked /\ fam.prev = t[2] ->
            [ok |-> FALSE, what |-> "theft", m |-> [m EXCEPT !.fam[f].revoked = TRUE]]
       [] ~fam.revoked /\ fam.prev # t[2] /\ fam.cur = t[2] /\ ~fam.expired ->
            [ok |-> TRUE, what |-> "rotated", m |-> [m EXCEPT !.fam[f] = Rotated(@)]]
       [] OTHER -> [ok |-> FALSE, what |-> "invalid", m |-> m]

RevokeByToken(m, t) ==
  IF t[2] \in {m.fam[t[1]].cur, m.fam[t[1]].prev} THEN Ok([m EXCEPT !.fam[t[1]].revoked = TRUE])
  ELSE Ok(m)

\* Mutant: the loop ends at the first family of the account.
RevokeFirst(m, u) ==
  Ok([m EXCEPT !.fam = [f \in Fams |->
        [m.fam[f] EXCEPT !.revoked = @ \/ (m.fam[f].user = u /\ \A g \in 1..(f - 1) : m.fam[g].user # u)]]])

RevokeAllForUser(m, u) ==
  Ok([m EXCEPT !.fam = [f \in Fams |->
        [m.fam[f] EXCEPT !.revoked = @ \/ m.fam[f].user = u]]])
=============================================================================
