------------------------------ MODULE Workspace ------------------------------
(***************************************************************************)
(* Google Workspace commands (gws_handlers.py, gws_api.py) and the token   *)
(* file in the teacher's home they share (gws_auth.py, gws_setup.py).      *)
(* `gws setup` has the teacher consent in a browser and writes a token;    *)
(* every other command loads it, refreshes it when it has expired, writes  *)
(* it back, and then makes its requests.                                   *)
(*                                                                         *)
(* Commands overlap, no file is locked, any command may be killed, access  *)
(* tokens expire, grants are revoked.  The approval of a mail is           *)
(* OutwardSend's.  A grant is what a consent gives a client: an account    *)
(* and all scopes or some; an access token names the grant it was issued   *)
(* under.  What the requests do is told of Drive folders only.             *)
(***************************************************************************)
EXTENDS Naturals, FiniteSets

CONSTANTS
  Procs,
  Clients, Embedded,  \* OAuth clients, and the one in the code
  Grants,             \* consents the teacher may give: [client, account, allScopes]
  Followed,           \* bound: owners whose folders are followed, which do
                      \* not depend on those of others
  MaxAccess           \* bound on access tokens issued

VARIABLES
  token,   \* google_token.json: {} missing or without text, {t} the token t,
           \* a larger set what writers left one over the other
  tmp,     \* google_token.json.tmp: whether it is there, and its text
  home,    \* google_client.json, none or one
  issued,  \* history: how many access tokens were issued
  expired, \* how many of them have expired, the oldest first
  folders, \* how many Drive folders of one name a client made for an account
  proc

files == <<token, tmp, home>>
vars == <<token, tmp, home, issued, expired, folders, proc>>
google == <<issued, expired, folders>>

\* A client sees the folders it made for the account only.
OwnerOf(grant) == <<grant.client, grant.account>>

Idle == [step |-> "none"]
GoTo(p, state) == proc' = [proc EXCEPT ![p] = state]

\* The token can be read.
Reads(t) == token = {t}

NoTmp == [there |-> FALSE, text |-> {}]

Init ==
  /\ token = {} /\ tmp = NoTmp /\ home = {} /\ issued = 0 /\ expired = 0
  /\ folders = [o \in Followed |-> 0]
  /\ proc = [p \in Procs |-> Idle]

-----------------------------------------------------------------------------
(* gws client install                                                      *)

\* The newest client file of the downloads, if it is one.
InstallClient(client) ==
  /\ home' = {client}
  /\ UNCHANGED <<token, tmp, google, proc>>

-----------------------------------------------------------------------------
(* _write_token: the text is written to google_token.json.tmp, a name that *)
(* all commands share, and that file then takes the place of the token.    *)

\* From here on p writes t, and then ends or goes on with an access token.
Open(p, t, then) ==
  /\ tmp' = [there |-> TRUE, text |-> {}]
  /\ GoTo(p, [step |-> "write", token |-> t, file |-> "tmp", then |-> then])
  /\ UNCHANGED <<token, home, google>>

\* Over the text another command has written since, which may be longer.
Fill(p) ==
  LET c == proc[p]
      Filled(text) == {{c.token}, text \cup {c.token}} IN
  /\ c.step = "write"
  /\ IF c.file = "tmp" THEN tmp' \in {[tmp EXCEPT !.text = text] : text \in Filled(tmp.text)}
                       ELSE UNCHANGED tmp
  /\ IF c.file = "token" THEN token' \in Filled(token) ELSE UNCHANGED token
  /\ GoTo(p, [step |-> "replace", then |-> c.then])
  /\ UNCHANGED <<home, google>>

\* The files the commands write to after the rename.
Renamed(c) ==
  IF c.step # "write" THEN c
  ELSE [c EXCEPT !.file = IF @ = "tmp" THEN "token" ELSE "gone"]

\* Fails when another command has renamed the file meanwhile.
Replace(p) ==
  LET c == proc[p]
      next == IF c.then # {} /\ tmp.there
              THEN [step |-> "request", access |-> CHOOSE access \in c.then : TRUE]
              ELSE Idle IN
  /\ c.step = "replace"
  /\ IF tmp.there
     THEN /\ token' = tmp.text /\ tmp' = NoTmp
          /\ proc' = [q \in Procs |-> IF q = p THEN next ELSE Renamed(proc[q])]
     ELSE GoTo(p, next) /\ UNCHANGED <<token, tmp>>
  /\ UNCHANGED <<home, google>>
-----------------------------------------------------------------------------
(* gws setup                                                               *)

\* resolve_client: --client-file, the file in the home, the embedded client.
ResolveClient(explicit) ==
  IF explicit # {} THEN explicit ELSE IF home # {} THEN home ELSE {Embedded}

\* run_consent_flow and exchange_code_for_token; the answer may come without
\* a refresh token.
Setup(p, explicit, grant, refreshable) ==
  /\ proc[p] = Idle /\ issued < MaxAccess
  /\ grant.client \in ResolveClient(explicit)
  /\ issued' = issued + 1
  /\ GoTo(p, [step |-> "setup",
              token |-> [client |-> grant.client, scopes |-> grant.allScopes,
                         access |-> [grant |-> grant, nr |-> issued],
                         refresh |-> IF refreshable THEN {grant} ELSE {}]])
  /\ UNCHANGED <<files, expired, folders>>

WriteToken(p) ==
  /\ proc[p].step = "setup"
  /\ Open(p, proc[p].token, {})

-----------------------------------------------------------------------------
(* load_valid_access_token                                                 *)

Live(access) == access.nr >= expired

\* Without a token that can be read, or with one that has expired and cannot be
\* refreshed, the command ends here.  Which command it is shows in its requests only.
LoadToken(p) ==
  /\ proc[p] = Idle
  /\ \E t \in token :
       /\ Reads(t)
       /\ Live(t.access) \/ t.refresh # {}
       /\ GoTo(p, IF Live(t.access)
                  THEN [step |-> "request", access |-> t.access]
                  ELSE [step |-> "refresh", token |-> t])
  /\ UNCHANGED <<files, google>>

\* A grant that was revoked ends the command (Fail).
Refresh(p) ==
  LET t == proc[p].token IN
  /\ proc[p].step = "refresh" /\ issued < MaxAccess
  /\ \E grant \in t.refresh :
       LET access == [grant |-> grant, nr |-> issued] IN
       /\ issued' = issued + 1
       /\ GoTo(p, [step |-> "save", token |-> t, access |-> access])
  /\ UNCHANGED <<files, expired, folders>>

\* A bug to be caught: the file is read again before the new access is put in.
SaveIntoCurrent(p) ==
  LET c == proc[p] IN
  /\ c.step = "save"
  /\ \E t \in token : Reads(t) /\ Open(p, [t EXCEPT !.access = c.access], {c.access})

\* The token as it was loaded is written with the new access.
SaveRefreshed(p) ==
  LET c == proc[p] IN
  /\ c.step = "save"
  /\ Open(p, [c.token EXCEPT !.access = c.access], {c.access})

-----------------------------------------------------------------------------
(* The requests.                                                           *)

\* _request: 401 for an access token that has expired (or was revoked, Fail).
Authorized(p) == Live(proc[p].access)

\* The commands of one request (calendar, gmail send, sheets append, update,
\* clear, values-get and the batches), and the last one of the others.
Call(p) ==
  /\ proc[p].step \in {"request", "last"} /\ Authorized(p)
  /\ GoTo(p, Idle)
  /\ UNCHANGED <<files, google>>

\* sheets_create; the rows are appended in a request of their own.
CreateSheet(p) ==
  /\ proc[p].step = "request" /\ Authorized(p)
  /\ GoTo(p, [proc[p] EXCEPT !.step = "last"])
  /\ UNCHANGED <<files, google>>

\* drive_upload: _ensure_folder looks for the folder, then makes it if there
\* was none.
FindFolder(p) ==
  LET owner == OwnerOf(proc[p].access.grant) IN
  /\ proc[p].step = "request" /\ Authorized(p) /\ owner \in Followed
  /\ GoTo(p, [proc[p] EXCEPT !.step = IF folders[owner] = 0 THEN "folder" ELSE "last"])
  /\ UNCHANGED <<files, google>>

CreateFolder(p) ==
  LET owner == OwnerOf(proc[p].access.grant) IN
  /\ proc[p].step = "folder" /\ Authorized(p)
  /\ folders' = [folders EXCEPT ![owner] = @ + 1]
  /\ GoTo(p, [proc[p] EXCEPT !.step = "last"])
  /\ UNCHANGED <<files, issued, expired>>

Expire ==
  /\ expired < issued
  /\ expired' = expired + 1
  /\ UNCHANGED <<files, issued, folders, proc>>

\* Killed, refused by Google, or the browser was closed without consent.
Fail(p) ==
  /\ proc[p] # Idle
  /\ GoTo(p, Idle)
  /\ UNCHANGED <<files, google>>

Next ==
  \/ \E client \in Clients : InstallClient(client)
  \/ Expire
  \/ \E p \in Procs :
       \/ \E explicit \in {{}} \cup {{c} : c \in Clients}, grant \in Grants,
            refreshable \in BOOLEAN : Setup(p, explicit, grant, refreshable)
       \/ LoadToken(p) \/ WriteToken(p) \/ Refresh(p) \/ SaveRefreshed(p)
       \/ Fill(p) \/ Replace(p)
       \/ Call(p) \/ CreateSheet(p) \/ FindFolder(p) \/ CreateFolder(p) \/ Fail(p)

Spec == Init /\ [][Next]_vars

-----------------------------------------------------------------------------
\* token_status of the file.
TokenStatus ==
  IF \E t \in token : Reads(t) /\ t.scopes THEN "PASS" ELSE "NEEDS_SETUP"

(* A token that can be read is always one consent's, whatever refreshes    *)
(* and setups overlap or die, also while they write to one file: its       *)
(* access token was issued under the grant of its refresh token, for its   *)
(* client and its scopes, so no request goes to another account than a     *)
(* later refresh would, and a status of PASS means that the consent gave   *)
(* all scopes; and overlapping uploads leave no more folders of a name     *)
(* than commands ran at once (load_valid_access_token, _refresh,           *)
(* _write_token, token_status, _ensure_folder).                            *)
TokenIsOneGrant ==
  /\ \A t \in token : Reads(t) =>
       /\ t.access.grant.client = t.client /\ t.refresh \subseteq {t.access.grant}
       /\ TokenStatus = "PASS" => t.access.grant.allScopes
  /\ \A o \in DOMAIN folders : folders[o] <= Cardinality(Procs)
=============================================================================
