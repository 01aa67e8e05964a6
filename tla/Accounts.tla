------------------------------ MODULE Accounts -----------------------------
(***************************************************************************)
(* Accounts: login, su and passwd over the password file                   *)
(* (user/lib/password.c, user/login.c, user/su.c, user/passwd.c), with the *)
(* identity calls of the kernel (setgroups, setgid, setuid) they end in.   *)
(*                                                                         *)
(* A line of the file is an account and a password; a hash is right for    *)
(* exactly the password it was made of.  passwd reads the whole file,      *)
(* truncates it and writes it again: three calls, and nothing keeps two    *)
(* programs apart.                                                         *)
(***************************************************************************)
EXTENDS Naturals, Sequences, FiniteSets

CONSTANTS
  AcPrograms,    \* the programs run
  AcUsers,       \* the accounts; "root" has user id 0
  AcGroups,      \* [account -> the groups that list it]
  AcPasswords,
  AcFits,        \* how many lines file_text holds
  AcMaxGroups,   \* MAX_GROUPS
  AcRacing,      \* may two passwd run at once?
  AcFaults       \* how many writes fail

AcAssumption == "root" \in AcUsers /\ AcFits \in Nat /\ AcRacing \in BOOLEAN

VARIABLES
  etc,           \* the password file: a sequence of [name, pass]
  prog,          \* [program -> [kind, at, caller, name, known, new, text, uid, ruid, gid, rgid, groups]]
  agreed,        \* [account -> the password last set with success, "none" before it is added]
  acFaults
acVars == <<etc, prog, agreed, acFaults>>

NoProgram == [kind |-> "none", at |-> "start", caller |-> "root", name |-> "root", known |-> "none",
              new |-> "none", text |-> <<>>, uid |-> "root", ruid |-> "root", gid |-> "root",
              rgid |-> "root", groups |-> {}]
Goes(p, where) == prog' = [prog EXCEPT ![p].at = where]

-----------------------------------------------------------------------------
(***************************************************************************)
(* The file.                                                               *)
(***************************************************************************)
read_file == SubSeq(etc, 1, IF Len(etc) < AcFits THEN Len(etc) ELSE AcFits)
Complete == Len(etc) <= AcFits
\* find: the first line that names the account, or "none".
find(name) ==
  LET at == {i \in DOMAIN read_file : read_file[i].name = name} IN
  IF at = {} THEN "none" ELSE read_file[CHOOSE i \in at : \A j \in at : i <= j].pass
Replaced(text, name, pass) ==
  [i \in DOMAIN text |-> IF text[i].name = name THEN [text[i] EXCEPT !.pass = pass] ELSE text[i]]

\* An administrator adds a line.
add_account(name, pass) ==
  /\ agreed[name] = "none" /\ \A p \in AcPrograms : prog[p].at \in {"start", "shell", "failed", "done"}
  /\ etc' = Append(etc, [name |-> name, pass |-> pass])
  /\ agreed' = [agreed EXCEPT ![name] = pass]
  /\ UNCHANGED <<prog, acFaults>>

-----------------------------------------------------------------------------
(***************************************************************************)
(* The programs.  All run with root's rights (login is started by init, su *)
(* and passwd are set-uid); the real user is who asks.                     *)
(***************************************************************************)
start(p, kind, caller, name) ==
  /\ prog[p].at = "start" /\ agreed[caller] # "none"
  /\ kind = "login" => caller = "root"
  /\ kind = "passwd" /\ ~AcRacing => \A q \in AcPrograms : prog[q].kind = "passwd" => prog[q].at \in {"done", "failed"}
  /\ prog' = [prog EXCEPT ![p] = [NoProgram EXCEPT !.kind = kind, !.at = "ask", !.caller = caller, !.name = name,
                                  !.known = find(name), !.ruid = caller, !.gid = caller, !.rgid = caller]]
  /\ UNCHANGED <<etc, agreed, acFaults>>

\* login and su: the password is asked for even if the name is unknown; root
\* is not asked by su.
MustAsk(p) == prog[p].kind = "login" \/ prog[p].caller # "root"
Passes(p, typed) == prog[p].known # "none" /\ (MustAsk(p) => typed = prog[p].known)
check_password(p, typed) ==
  /\ prog[p].at = "ask" /\ prog[p].kind \in {"login", "su"}
  /\ Goes(p, IF Passes(p, typed) THEN "groups" ELSE "failed")
  /\ UNCHANGED <<etc, agreed, acFaults>>

\* passwd: only one's own, and only knowing it (root: anyone's).
Own(p) == prog[p].caller = "root" \/ prog[p].name = prog[p].caller
ask_new(p, typed, new) ==
  /\ prog[p].at = "ask" /\ prog[p].kind = "passwd"
  /\ prog' = [prog EXCEPT ![p].new = new,
                          ![p].at = IF Passes(p, typed) /\ Own(p) THEN "find" ELSE "failed"]
  /\ UNCHANGED <<etc, agreed, acFaults>>
\* account_set_password: look the account up again, read the file again ...
set_find(p) ==
  /\ prog[p].at = "find"
  /\ Goes(p, IF find(prog[p].name) = "none" THEN "failed" ELSE "read")
  /\ UNCHANGED <<etc, agreed, acFaults>>
set_read(p) ==
  /\ prog[p].at = "read"
  /\ prog' = [prog EXCEPT ![p].text = read_file, ![p].at = IF Complete THEN "truncate" ELSE "failed"]
  /\ UNCHANGED <<etc, agreed, acFaults>>
\* ... empty it (open with O_TRUNC) and write it.
set_truncate(p) ==
  /\ prog[p].at = "truncate"
  /\ etc' = <<>>
  /\ Goes(p, "write")
  /\ UNCHANGED <<agreed, acFaults>>
set_write(p) ==
  /\ prog[p].at = "write"
  /\ etc' = LET text == Replaced(prog[p].text, prog[p].name, prog[p].new) IN
            text \o SubSeq(etc, Len(text) + 1, Len(etc))
  /\ agreed' = [agreed EXCEPT ![prog[p].name] = prog[p].new]
  /\ prog' = [prog EXCEPT ![p].at = "done", ![p].text = <<>>]
  /\ UNCHANGED acFaults
write_fails(p) ==
  /\ prog[p].at = "write" /\ acFaults > 0
  /\ acFaults' = acFaults - 1
  /\ prog' = [prog EXCEPT ![p].at = "failed", ![p].text = <<>>]
  /\ UNCHANGED <<etc, agreed>>

-----------------------------------------------------------------------------
(***************************************************************************)
(* Becoming the account: sys_setgroups, setgid and setuid.                 *)
(***************************************************************************)
\* Mutant of After: the user is changed first
AfterUidFirst(step) == CASE step = "groups" -> "uid" [] step = "uid" -> "gid" [] step = "gid" -> "shell"
After(step) == CASE step = "groups" -> "gid" [] step = "gid" -> "uid" [] step = "uid" -> "shell"
\* The groups that list the account, its own left out.
account_groups(name) == AcGroups[name] \ {name}
setgroups(p) ==
  LET groups == account_groups(prog[p].name) IN
  /\ prog[p].at = "groups"
  /\ prog' = IF Cardinality(groups) > AcMaxGroups \/ prog[p].uid # "root" THEN [prog EXCEPT ![p].at = "failed"]
             ELSE [prog EXCEPT ![p].groups = groups, ![p].at = After("groups")]
  /\ UNCHANGED <<etc, agreed, acFaults>>
setgid(p) ==
  LET gid == prog[p].name IN
  /\ prog[p].at = "gid"
  /\ prog' = CASE prog[p].uid = "root" -> [prog EXCEPT ![p].rgid = gid, ![p].gid = gid, ![p].at = After("gid")]
               [] prog[p].uid # "root" /\ gid = prog[p].rgid -> [prog EXCEPT ![p].gid = gid, ![p].at = After("gid")]
               [] OTHER -> [prog EXCEPT ![p].at = "failed"]
  /\ UNCHANGED <<etc, agreed, acFaults>>
setuid(p) ==
  LET uid == prog[p].name IN
  /\ prog[p].at = "uid"
  /\ prog' = CASE prog[p].uid = "root" -> [prog EXCEPT ![p].ruid = uid, ![p].uid = uid, ![p].at = After("uid")]
               [] prog[p].uid # "root" /\ uid = prog[p].ruid -> [prog EXCEPT ![p].uid = uid, ![p].at = After("uid")]
               [] OTHER -> [prog EXCEPT ![p].at = "failed"]
  /\ UNCHANGED <<etc, agreed, acFaults>>

AcInit ==
  /\ etc = <<[name |-> "root", pass |-> "p"]>>
  /\ agreed = [u \in AcUsers |-> IF u = "root" THEN "p" ELSE "none"]
  /\ prog = [p \in AcPrograms |-> NoProgram]
  /\ acFaults = AcFaults
AcNext ==
  \/ \E name \in AcUsers, pass \in AcPasswords : add_account(name, pass)
  \/ \E p \in AcPrograms :
       \/ \E kind \in {"login", "su", "passwd"}, caller, name \in AcUsers : start(p, kind, caller, name)
       \/ \E typed \in AcPasswords : check_password(p, typed) \/ \E new \in AcPasswords : ask_new(p, typed, new)
       \/ set_find(p) \/ set_read(p) \/ set_truncate(p) \/ set_write(p) \/ write_fails(p)
       \/ setgroups(p) \/ setgid(p) \/ setuid(p)

-----------------------------------------------------------------------------
\* No account is lost: unless a passwd has the file open to write it, or a
\* write has failed, the file has every account once, each with the password
\* that was last set for it with success (account_set_password; with AcRacing
\* two passwd at once lose accounts).
AccountsAreKept ==
  acFaults = AcFaults /\ (\A p \in AcPrograms : prog[p].at # "write") =>
    /\ \A u \in AcUsers : Cardinality({i \in DOMAIN etc : etc[i].name = u}) = IF agreed[u] = "none" THEN 0 ELSE 1
    /\ \A i \in DOMAIN etc : etc[i].pass = agreed[etc[i].name]
\* A shell has all of its account's identity and nothing of root's, and who
\* passed the check gets one, unless the account has too many groups (login
\* and su change the groups first, the user last).
ShellIsTheirs ==
  \A p \in AcPrograms :
    LET P == prog[p] IN
    /\ P.at = "shell" =>
         /\ {P.uid, P.ruid, P.gid, P.rgid} = {P.name}
         /\ P.groups = account_groups(P.name)
    /\ P.at = "failed" => P.uid = "root"
=============================================================================
