-------------------------------- MODULE Auth --------------------------------
(***************************************************************************)
(* Login, refresh, logout, password, TOTP and account administration       *)
(* (lib/auth service.go) by concurrent callers: a request is a few calls   *)
(* of the store with nothing held in between, every write of the accounts  *)
(* file may fail, and the server may be killed and restarted at any time.  *)
(***************************************************************************)
EXTENDS Accounts

CONSTANTS
  Callers,    \* concurrent requests
  Passwords,  \* passwords callers try and set
  NSecrets,   \* bound: TOTP secrets
  MaxCalls,   \* bound: requests
  MaxFaults   \* bound: failed writes and crashes

ASSUME AuthAssumption == Passwords \subseteq Nat \ {0} /\ NSecrets \in Nat

VARIABLES
  up,       \* the server runs
  mem,      \* the store in memory
  disk,     \* the accounts file; NoFile before the first boot
  req,      \* what each caller's request has yet to do
  handed,   \* tokens handed out
  uses,     \* how often a token has been exchanged
  ended,    \* families whose revocation has reached the file
  dropped,  \* families that went with their account
  left      \* what the bounds leave

vars == <<up, mem, disk, req, handed, uses, ended, dropped, left>>

Codes == 0..NSecrets
NoFile == [acc |-> [u \in Users |-> NoAccount], fam |-> [f \in Fams |-> NoFam]]

\* at: the next call of the store; copy: what CheckPassword read of the account object,
\* kept because a deleted account's object lives on in the request that points at it.
Idle == [op |-> "none", at |-> "idle", u |-> Admin, pw |-> 0, code |-> 0, tok |-> <<1, 1>>,
         class |-> "", dis |-> "", copy |-> NoAccount]

TypeOK ==
  /\ up \in BOOLEAN /\ handed \subseteq Token /\ ended \subseteq Fams /\ dropped \subseteq Fams
  /\ \A m \in {mem, disk} : \A f \in Fams :
       m.fam[f].cur \in 0..MaxGen /\ m.fam[f].prev \in 0..MaxGen /\ m.fam[f].user \in Users \cup {"none"}
  /\ \A p \in Callers : req[p].u \in Users /\ req[p].tok \in Token

\* A server that never ran, and one whose file holds an account with 2FA and a session.
Seeded(u) ==
  [acc |-> [v \in Users |-> IF v \in {Admin, u}
              THEN [Account("admin", 1) EXCEPT !.totp = IF v = u THEN 1 ELSE NoSecret] ELSE NoAccount],
   fam |-> [f \in Fams |-> IF f = 1 THEN NewFam(u) ELSE NoFam]]

Init ==
  /\ up = FALSE /\ mem = EmptyStore
  /\ \/ disk = NoFile /\ handed = {}
     \/ \E u \in Users \ {Admin} : disk = Seeded(u) /\ handed = {<<1, 1>>}
  /\ req = [p \in Callers |-> Idle]
  /\ uses = [t \in Token |-> 0] /\ ended = {} /\ dropped = {}
  /\ left = [calls |-> MaxCalls, faults |-> MaxFaults]

-----------------------------------------------------------------------------
\* NewService: load the file, or bootstrap; a failed write fails the start.
Boot ==
  /\ ~up
  /\ mem' = IF disk = NoFile THEN Create(EmptyStore, Admin, "admin", 1).m ELSE disk
  /\ \/ up' = TRUE /\ disk' = mem' /\ UNCHANGED left
     \/ /\ disk = NoFile /\ left.faults > 0
        /\ left' = [left EXCEPT !.faults = @ - 1]
        /\ UNCHANGED <<up, disk>>
  /\ UNCHANGED <<req, handed, uses, ended, dropped>>

\* The server is killed: the rename has happened or it has not.
Crash ==
  /\ up /\ left.faults > 0
  /\ up' = FALSE /\ mem' = EmptyStore /\ req' = [p \in Callers |-> Idle]
  /\ left' = [left EXCEPT !.faults = @ - 1]
  /\ UNCHANGED <<disk, handed, uses, ended, dropped>>

\* Time: a family expires, in the file perhaps earlier (a failed write of a rotation).
Expire(f) ==
  /\ disk.fam[f].user # "none" \/ mem.fam[f].user # "none"
  /\ \/ mem' = [mem EXCEPT !.fam[f].expired = TRUE]
     \/ (~up \/ mem.fam[f] # disk.fam[f]) /\ UNCHANGED mem
  /\ disk' = [disk EXCEPT !.fam[f].expired = TRUE]
  /\ UNCHANGED <<up, req, handed, uses, ended, dropped, left>>

At(p, at) == up /\ req[p].at = at
Goes(p, r) == [req EXCEPT ![p] = r]
Refused(p) == req' = Goes(p, Idle) /\ UNCHANGED <<up, mem, disk, handed, uses, ended, dropped, left>>
Reads(p, r) == req' = Goes(p, r) /\ UNCHANGED <<up, mem, disk, handed, uses, ended, dropped, left>>

OwnedBy(u) == {f \in Fams : mem.fam[f].user = u}

\* What a call of the store that was written means to the callers; drop whether or not.
Nothing == [hand |-> {}, use |-> {}, end |-> {}, drop |-> {}]

\* Mutant: save's error is dropped, the call goes on.
CommitBlind(p, m, rs, e) ==
  /\ mem' = m /\ req' = rs /\ dropped' = dropped \cup e.drop
  /\ handed' = handed \cup e.hand /\ ended' = ended \cup e.end
  /\ uses' = [t \in Token |-> uses[t] + IF t \in e.use THEN 1 ELSE 0]
  /\ \/ disk' = m /\ UNCHANGED left
     \/ left.faults > 0 /\ left' = [left EXCEPT !.faults = @ - 1] /\ UNCHANGED disk
  /\ UNCHANGED up

\* The store now holds m and writes it; when that fails the request ends in an error.
Commit(p, m, rs, e) ==
  /\ mem' = m /\ dropped' = dropped \cup e.drop
  /\ \/ /\ disk' = m /\ req' = rs
        /\ handed' = handed \cup e.hand /\ ended' = ended \cup e.end
        /\ uses' = [t \in Token |-> uses[t] + IF t \in e.use THEN 1 ELSE 0]
        /\ UNCHANGED left
     \/ /\ left.faults > 0 /\ left' = [left EXCEPT !.faults = @ - 1]
        /\ req' = [rs EXCEPT ![p] = Idle]
        /\ UNCHANGED <<disk, handed, uses, ended>>
  /\ UNCHANGED up

\* A method whose own check may fail, followed by r.
Method(p, res, r, e) == IF res.ok THEN Commit(p, res.m, Goes(p, r), e) ELSE Refused(p)
-----------------------------------------------------------------------------
(* Requests.                                                               *)

New == {[Idle EXCEPT !.op = o, !.at = "hash", !.u = u, !.pw = w, !.code = c] :
          o \in {"login", "password", "totpoff"}, u \in Users, w \in Passwords, c \in Codes}
       \cup {[Idle EXCEPT !.op = o, !.at = o, !.tok = t] : o \in {"refresh", "logout"}, t \in handed}
       \cup {[Idle EXCEPT !.op = "confirm", !.at = "pending", !.u = u, !.code = c] : u \in Users, c \in Codes}
       \cup {[Idle EXCEPT !.op = "update", !.at = "class", !.u = u, !.class = k, !.dis = d] :
               u \in Users, k \in {"", "admin", "data"}, d \in {"", "on", "off"}}
       \cup {[Idle EXCEPT !.op = o, !.at = o, !.u = u] :
               o \in {"create", "delete", "revoke", "enable", "regenerate"}, u \in Users}

Start(p) ==
  /\ up /\ req[p] = Idle /\ left.calls > 0
  /\ \E r \in New : req' = Goes(p, r)
  /\ left' = [left EXCEPT !.calls = @ - 1]
  /\ UNCHANGED <<up, mem, disk, handed, uses, ended, dropped>>

\* CheckPassword: the hash is read under the lock ...
Hash(p) ==
  LET r == req[p] IN
  /\ At(p, "hash")
  /\ IF mem.acc[r.u].in /\ mem.acc[r.u].pass = r.pw THEN Reads(p, [r EXCEPT !.at = "account"])
     ELSE Refused(p)

\* ... and the account after bcrypt without it; then the code.
CheckedAccount(p) ==
  LET r == req[p]
      a == IF r.copy.in THEN r.copy ELSE mem.acc[r.u]
      code == a.totp = NoSecret \/ r.code = a.totp
  IN /\ At(p, "account")
     /\ IF a.dis \/ ~code \/ (r.op = "totpoff" /\ a.totp = NoSecret) THEN Refused(p)
        ELSE Reads(p, [r EXCEPT !.at = r.op])

\* The name of a family is drawn at random: one that nobody has used.
Unused(f) == mem.fam[f] = NoFam /\ f \notin ended /\ \A t \in handed : t[1] # f

\* Mutant: NewFamily drops save's error.
LoginUnsaved(p) ==
  /\ At(p, "login")
  /\ \E f \in Fams :
       /\ Unused(f)
       /\ CommitBlind(p, NewFamily(mem, f, req[p].u).m, Goes(p, Idle), [Nothing EXCEPT !.hand = {<<f, 1>>}])

\* issuePair.
Login(p) ==
  /\ At(p, "login")
  /\ \E f \in Fams :
       Unused(f) /\ Method(p, NewFamily(mem, f, req[p].u), Idle, [Nothing EXCEPT !.hand = {<<f, 1>>}])

ChangePassword(p) ==
  LET r == req[p] IN
  \/ At(p, "password")
     /\ \E w \in Passwords : Method(p, SetPassword(mem, r.u, w), [r EXCEPT !.at = "sessions"], Nothing)
  \/ At(p, "sessions")
     /\ Method(p, RevokeAllForUser(mem, r.u), Idle, [Nothing EXCEPT !.end = OwnedBy(r.u)])

Refresh(p) ==
  LET r == req[p]
      res == Rotate(mem, r.tok)
      new == <<r.tok[1], r.tok[2] + 1>>
      fam == mem.fam[r.tok[1]]
  IN \/ /\ At(p, "refresh") /\ r.tok[2] < MaxGen
        /\ CASE res.what = "theft" -> Commit(p, res.m, Goes(p, Idle), [Nothing EXCEPT !.end = {r.tok[1]}])
             [] res.what = "rotated" ->
                  Commit(p, res.m, Goes(p, [r EXCEPT !.at = "owner", !.u = fam.user, !.tok = new]),
                         [Nothing EXCEPT !.use = {r.tok}])
             [] OTHER -> Refused(p)
     \/ /\ At(p, "owner")
        /\ IF mem.acc[r.u].in /\ ~mem.acc[r.u].dis
             THEN /\ req' = Goes(p, Idle) /\ handed' = handed \cup {r.tok}
                  /\ UNCHANGED <<up, mem, disk, uses, ended, dropped, left>>
             ELSE Reads(p, [r EXCEPT !.at = "logout"])

\* RevokeByToken, for Logout and for a Refresh of a disabled account.
Logout(p) ==
  LET r == req[p]
      known == r.tok[2] \in {mem.fam[r.tok[1]].cur, mem.fam[r.tok[1]].prev}
  IN /\ At(p, "logout")
     /\ Method(p, RevokeByToken(mem, r.tok), Idle,
               [Nothing EXCEPT !.end = IF known THEN {r.tok[1]} ELSE {}])

RevokeSessions(p) ==
  LET u == req[p].u IN
  /\ At(p, "revoke")
  /\ IF mem.acc[u].in
       THEN Method(p, RevokeAllForUser(mem, u), Idle, [Nothing EXCEPT !.end = OwnedBy(u)])
       ELSE Refused(p)

\* The secret is drawn at random.
EnableTOTP(p) ==
  LET r == req[p] IN
  /\ up /\ r.at \in {"enable", "regenerate"}
  /\ \E secret \in 1..NSecrets :
       /\ \A m \in {mem, disk}, u \in Users : secret \notin {m.acc[u].totp, m.acc[u].pend}
       /\ Method(p, StageTOTP(mem, r.u, secret, r.op = "regenerate"), Idle, Nothing)

\* The code is checked against the secret that is pending now ...
CheckPending(p) ==
  LET r == req[p] IN
  /\ At(p, "pending")
  /\ IF mem.acc[r.u].in /\ mem.acc[r.u].pend # NoSecret /\ r.code = mem.acc[r.u].pend
       THEN Reads(p, [r EXCEPT !.at = "confirm"]) ELSE Refused(p)

\* ... and the one that is pending then is promoted.
Confirm(p) == At(p, "confirm") /\ Method(p, ConfirmTOTP(mem, req[p].u, req[p].code), Idle, Nothing)

TotpOff(p) == At(p, "totpoff") /\ Method(p, DisableTOTP(mem, req[p].u), Idle, Nothing)

CreateAccount(p) ==
  /\ At(p, "create")
  /\ \E k \in {"admin", "data"}, w \in Passwords : Method(p, Create(mem, req[p].u, k, w), Idle, Nothing)

\* UpdateAccount: two calls of the store.
UpdateAccount(p) ==
  LET r == req[p]
      rest == [r EXCEPT !.at = "disabled"]
  IN \/ At(p, "class") /\ IF r.class = "" THEN Reads(p, rest)
                          ELSE Method(p, SetClass(mem, r.u, r.class), rest, Nothing)
     \/ At(p, "disabled") /\ IF r.dis = "" THEN Reads(p, Idle)
                             ELSE Method(p, SetDisabled(mem, r.u, r.dis = "on"), Idle, Nothing)

\* The object lives on in the requests that hold a pointer to it.
DeleteAccount(p) ==
  LET u == req[p].u
      res == Delete(mem, u)
      rs == [q \in Callers |-> IF q = p THEN Idle
                               ELSE IF req[q].at = "account" /\ req[q].u = u /\ ~req[q].copy.in
                                      THEN [req[q] EXCEPT !.copy = mem.acc[u]] ELSE req[q]]
  IN /\ At(p, "delete")
     /\ IF res.ok THEN Commit(p, res.m, rs, [Nothing EXCEPT !.end = OwnedBy(u), !.drop = OwnedBy(u)]) ELSE Refused(p)

Serve(p) ==
  \/ Start(p) \/ Hash(p) \/ CheckedAccount(p) \/ Login(p) \/ ChangePassword(p) \/ Refresh(p)
  \/ Logout(p) \/ RevokeSessions(p) \/ EnableTOTP(p) \/ CheckPending(p) \/ Confirm(p) \/ TotpOff(p)
  \/ CreateAccount(p) \/ UpdateAccount(p) \/ DeleteAccount(p)

Next == Boot \/ Crash \/ (\E f \in Fams : Expire(f)) \/ (\E p \in Callers : Serve(p))

Spec == Init /\ [][Next]_vars
-----------------------------------------------------------------------------
(* Properties.                                                             *)

\* AdminRemains: an enabled administrative account remains in memory and in the file,
\* whatever requests, failed writes and restarts come together (ErrLastAdmin; each
\* guard and its change share one hold of the lock).
AdminRemains ==
  /\ up => CountEnabledAdmins(mem) >= 1
  /\ disk # NoFile => CountEnabledAdmins(disk) >= 1

\* SingleUse: no refresh token is exchanged twice, and every token that was handed out is
\* known to the file unless its account was deleted since, also when writes fail and the
\* server restarts (single-use rotation, Rotate and NewFamily save before they answer).
SingleUse ==
  /\ TypeOK
  /\ \A t \in Token : uses[t] <= 1
  /\ \A t \in handed : \/ t[2] <= disk.fam[t[1]].cur
                       \/ disk.fam[t[1]] = NoFam /\ t[1] \in dropped

\* RevokedStays: once a logout, a detected reuse, a password change, a session
\* revocation or a deletion has reached the file, no token of the sessions it was about
\* is ever exchanged again, not by a refresh in flight nor after a restart.
RevokedStays == [][\A t \in Token : t[1] \in ended => uses'[t] = uses[t]]_vars

\* ProvenSecrets: a TOTP secret is "promoted to TOTPSecret (with TOTPEnabled) only after a
\* valid code confirms it" (accounts.go).
ProvenSecrets == \A u \in Users : mem.acc[u].proven
=============================================================================
