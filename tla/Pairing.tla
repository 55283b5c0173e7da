------------------------------ MODULE Pairing ------------------------------
(***************************************************************************)
(* How a phone gets and keeps the token it syncs with: the pairing code,   *)
(* the token store and the on/off switch of the PC's sync host, the        *)
(* dashboard that shows the code, and the phone's screens that scan it and *)
(* save what they are given (idiolect-sync-server, idiolect-app, and the   *)
(* Android setup and settings activities).                                 *)
(*                                                                         *)
(* Codes and tokens are numbered as they are made; code 0 is a wrong       *)
(* guess.  The phone is the device "own"; a client "other" stands for any  *)
(* second device, and for wrong guesses.  The phone's files hold the       *)
(* number of the token they were saved with, 0 when absent.                *)
(*                                                                         *)
(* The dashboard calls the host from one thread.  The pairing handler runs *)
(* under the locks of the code and of the tokens, after the gate has let   *)
(* the request pass.  On the phone, the setup screen and the settings      *)
(* screen each work on a thread of their own.                              *)
(***************************************************************************)
EXTENDS Naturals

CONSTANTS
    MaxAttempts,    \* PAIRING_MAX_ATTEMPTS
    MaxCodes,       \* bound: codes minted
    MaxTokens,      \* bound: tokens issued
    MaxFaults       \* bound: faults

ASSUME PairingBounds ==
    {MaxAttempts, MaxCodes, MaxTokens, MaxFaults} \subseteq Nat \ {0}

Code == 1..MaxCodes
Token == 1..MaxTokens
Device == {"own", "other"}
Saver == {"setup", "settings"}
Client == Saver \cup {"other"}
DeviceOf(c) == IF c = "other" THEN "other" ELSE "own"

VARIABLES
    \* the sync host
    enabled,    \* SyncHost.enabled
    pending,    \* PairingState.pending
    late,       \* the codes whose time is over
    memory,     \* DeviceTokenStore.by_hash: Device -> its token, or 0
    disk,       \* the token file
    minted, issued,     \* how many codes and tokens were made
    \* the dashboard
    shown,      \* LocalBackend.active_pairing: the code shown, or 0
    \* requests
    call,       \* Client -> its pairing request
    \* the phone
    saver,      \* Saver -> what the screen's thread is at
    url, pin, token,    \* the files of SecureSyncConfig
    \* history
    ended,      \* codes that are used, cancelled, superseded, burned or late
    granted,    \* code -> the tokens handed out for it
    out,        \* tokens whose end is on disk
    good,       \* the token the phone was given and should work with, or 0
    torn,       \* the phone's files were written by two threads, or halfway
    faults

host == <<enabled, pending, late, memory, disk, minted, issued, shown>>
phone == <<saver, url, pin, token>>
past == <<ended, granted, out, good, torn>>
vars == <<host, call, phone, past, faults>>

NoCode == [code |-> 0, left |-> 0]
NoCall == [stage |-> "none", code |-> 0, token |-> 0]
Idle == [step |-> "idle", run |-> 0, again |-> FALSE]

TypeOK ==
    /\ enabled \in BOOLEAN /\ torn \in BOOLEAN
    /\ pending \in {NoCode} \cup [code : Code, left : 1..MaxAttempts]
    /\ late \subseteq Code /\ ended \subseteq Code /\ out \subseteq Token
    /\ memory \in [Device -> 0..MaxTokens] /\ disk \in [Device -> 0..MaxTokens]
    /\ minted \in 0..MaxCodes /\ issued \in 0..MaxTokens /\ shown \in 0..MaxCodes
    /\ call \in [Client -> [stage : {"none", "sent", "admitted", "granted", "refused"},
                            code : 0..MaxCodes, token : 0..MaxTokens]]
    /\ saver \in [Saver -> [step : {"idle", "asking", "url", "pin", "token", "downloading"},
                            run : 0..MaxTokens, again : BOOLEAN]]
    /\ {url, pin, token, good} \subseteq 0..MaxTokens
    /\ granted \in [Code -> SUBSET Token]
    /\ faults \in 0..MaxFaults

Init ==
    /\ enabled = TRUE /\ pending = NoCode /\ late = {}
    /\ memory = [d \in Device |-> 0] /\ disk = [d \in Device |-> 0]
    /\ minted = 0 /\ issued = 0 /\ shown = 0
    /\ call = [c \in Client |-> NoCall]
    /\ saver = [s \in Saver |-> Idle]
    /\ url = 0 /\ pin = 0 /\ token = 0
    /\ ended = {} /\ granted = [c \in Code |-> {}] /\ out = {}
    /\ good = 0 /\ torn = FALSE /\ faults = 0

Fault == faults < MaxFaults /\ faults' = faults + 1

(***************************************************************************)
(* The dashboard.                                                          *)
(***************************************************************************)

(* What became of the code on offer, when another takes its place.         *)
PendingEnded == IF pending = NoCode THEN ended ELSE ended \cup {pending.code}

(* A new code, which supersedes any other.                                 *)
Mint ==
    /\ enabled /\ minted < MaxCodes
    /\ minted' = minted + 1
    /\ pending' = [code |-> minted', left |-> MaxAttempts]
    /\ shown' = minted' /\ ended' = PendingEnded
    /\ UNCHANGED <<enabled, late, memory, disk, issued, call, phone,
                   granted, out, good, torn, faults>>

(* The QR cannot be drawn: the new code is disarmed.  The one before it is *)
(* gone too, though the dashboard goes on showing it.                      *)
MintFails ==
    /\ enabled /\ minted < MaxCodes /\ Fault
    /\ minted' = minted + 1
    /\ pending' = NoCode /\ ended' = PendingEnded \cup {minted'}
    /\ UNCHANGED <<enabled, late, memory, disk, issued, shown, call, phone,
                   granted, out, good, torn>>

CancelPairing ==
    /\ shown # 0
    /\ pending' = NoCode /\ ended' = PendingEnded /\ shown' = 0
    /\ UNCHANGED <<enabled, late, memory, disk, minted, issued, call, phone,
                   granted, out, good, torn, faults>>

SetEnabled(on) ==
    /\ enabled # on /\ enabled' = on
    /\ IF on
       THEN UNCHANGED <<pending, shown, ended>>
       ELSE pending' = NoCode /\ shown' = 0 /\ ended' = PendingEnded
    /\ UNCHANGED <<late, memory, disk, minted, issued, call, phone,
                   granted, out, good, torn, faults>>

(* The ten minutes of the code on offer pass.                              *)
Expire ==
    /\ pending # NoCode /\ pending.code \notin late
    /\ late' = late \cup {pending.code} /\ ended' = PendingEnded
    /\ UNCHANGED <<enabled, pending, memory, disk, minted, issued, shown,
                   call, phone, granted, out, good, torn, faults>>

(* The dashboard's refresh takes a late code off the screen.               *)
Refresh ==
    /\ shown \in late /\ shown' = 0
    /\ UNCHANGED <<enabled, pending, late, memory, disk, minted, issued,
                   call, phone, past, faults>>

(* The tokens that a persisted change of the map puts an end to.           *)
Ends(new) == {t \in Token : \E d \in Device : t \in {memory[d], disk[d]} /\ new[d] # t}

(* Mutant of Unpair: the file is rewritten, the map keeps the device.      *)
UnpairOnDisk(d) ==
    /\ memory[d] # 0
    /\ disk' = [memory EXCEPT ![d] = 0] /\ out' = out \cup Ends(disk')
    /\ good' = IF d = "own" THEN 0 ELSE good
    /\ UNCHANGED <<enabled, pending, late, memory, minted, issued, shown, call,
                   phone, ended, granted, torn, faults>>

(* The operator unpairs a device.  That the file could not be written is   *)
(* only logged: the device is out until the next start of the host.        *)
Unpair(d) ==
    /\ memory[d] # 0
    /\ memory' = [memory EXCEPT ![d] = 0]
    /\ \/ /\ disk' = memory' /\ out' = out \cup Ends(memory')
          /\ UNCHANGED faults
       \/ Fault /\ UNCHANGED <<disk, out>>
    /\ good' = IF d = "own" THEN 0 ELSE good
    /\ UNCHANGED <<enabled, pending, late, minted, issued, shown, call, phone,
                   ended, granted, torn>>

(***************************************************************************)
(* The pairing endpoint.                                                   *)
(***************************************************************************)

(* An answer is on its way; what the other device makes of it is its own.  *)
Reply(c, stage, t) ==
    IF c = "other" THEN NoCall ELSE [stage |-> stage, code |-> 0, token |-> t]

Refusal(c) == Reply(c, "refused", 0)

(* The gate in front of every route.                                       *)
Admit(c) ==
    /\ call[c].stage = "sent"
    /\ call' = [call EXCEPT ![c] =
            IF enabled THEN [@ EXCEPT !.stage = "admitted"] ELSE Refusal(c)]
    /\ UNCHANGED <<host, phone, past, faults>>

(* Mutant of Redeemable: the code's time is not looked at.                 *)
RedeemableEver == pending # NoCode

Redeemable == pending # NoCode /\ pending.code \notin late

(* No code on offer, or one that is late and is cleared.                   *)
RedeemNone(c) ==
    /\ call[c].stage = "admitted" /\ ~Redeemable
    /\ call' = [call EXCEPT ![c] = Refusal(c)]
    /\ pending' = NoCode
    /\ UNCHANGED <<enabled, late, memory, disk, minted, issued, shown, phone, past, faults>>

(* A wrong code costs an attempt, the last one the code.                   *)
RedeemWrong(c) ==
    /\ call[c].stage = "admitted" /\ Redeemable /\ call[c].code # pending.code
    /\ call' = [call EXCEPT ![c] = Refusal(c)]
    /\ IF pending.left = 1
       THEN pending' = NoCode /\ ended' = PendingEnded
       ELSE pending' = [pending EXCEPT !.left = @ - 1] /\ UNCHANGED ended
    /\ UNCHANGED <<enabled, late, memory, disk, minted, issued, shown, phone,
                   granted, out, good, torn, faults>>

Right(c) ==
    /\ call[c].stage = "admitted" /\ Redeemable /\ call[c].code = pending.code
    /\ issued < MaxTokens /\ issued' = issued + 1

(* bind: the device's earlier token goes as the new one comes.             *)
Bound(c) == [memory EXCEPT ![DeviceOf(c)] = issued']

(* Does someone still wait for the answer?                                 *)
Waits(c) == c \in Saver /\ saver[c].step = "asking"

GoodAfter(c, t) == IF DeviceOf(c) = "own" THEN t ELSE good

(* The right code: the token is on disk before the code is used up.        *)
RedeemRight(c) ==
    /\ Right(c)
    /\ memory' = Bound(c) /\ disk' = memory' /\ out' = out \cup Ends(memory')
    /\ pending' = NoCode /\ ended' = PendingEnded
    /\ granted' = [granted EXCEPT ![pending.code] = @ \cup {issued'}]
    /\ call' = [call EXCEPT ![c] = Reply(c, "granted", issued')]
    /\ good' = GoodAfter(c, IF Waits(c) THEN issued' ELSE 0)
    /\ UNCHANGED <<enabled, late, minted, shown, phone, torn, faults>>

(* The file cannot be written: a 500.  The code stays, the token in memory *)
(* is one that nobody was told of, and the device's old one is gone.       *)
RedeemUnwritten(c) ==
    /\ Right(c) /\ Fault
    /\ memory' = Bound(c)
    /\ call' = [call EXCEPT ![c] = Refusal(c)]
    /\ good' = GoodAfter(c, 0)
    /\ UNCHANGED <<enabled, pending, late, disk, minted, shown, phone,
                   ended, granted, out, torn>>

(* The answers that are lost with the host.                                *)
GoodAfterCrash == IF \E s \in Saver : call[s].stage = "granted" THEN 0 ELSE good

Refused == [c \in Client |-> IF call[c] = NoCall THEN NoCall ELSE Refusal(c)]

(* The host dies and starts again, from the token file and without a code; *)
(* what was asked of it fails.                                             *)
HostRestarts ==
    /\ Fault
    /\ enabled' = TRUE /\ pending' = NoCode /\ ended' = PendingEnded /\ shown' = 0
    /\ memory' = disk
    /\ call' = Refused
    /\ good' = GoodAfterCrash
    /\ UNCHANGED <<late, disk, minted, issued, phone, granted, out, torn>>

(* It dies after the token file was replaced, and before it answers.       *)
DiesGranting(c) ==
    /\ Right(c) /\ Fault
    /\ disk' = Bound(c) /\ memory' = disk' /\ out' = out \cup Ends(disk')
    /\ enabled' = TRUE /\ pending' = NoCode /\ ended' = PendingEnded /\ shown' = 0
    /\ call' = Refused
    /\ good' = IF DeviceOf(c) = "own" THEN 0 ELSE GoodAfterCrash
    /\ UNCHANGED <<late, minted, phone, granted, torn>>

(***************************************************************************)
(* The clients, and the phone's screens.                                   *)
(***************************************************************************)

(* Another device, or a guess.                                             *)
Ask(code) ==
    /\ call["other"] = NoCall
    /\ call' = [call EXCEPT !["other"] = [NoCall EXCEPT !.stage = "sent", !.code = code]]
    /\ UNCHANGED <<host, phone, past, faults>>

Other(s) == CHOOSE o \in Saver : o # s
Busy(s) == saver[s].step # "idle"

(* A thread starts on the files while the other may write them too.        *)
Overlaps(s) == torn' = (torn \/ Busy(Other(s)))

(* A code is scanned, be it still on the dashboard or an old picture.      *)
Scan(s, code) ==
    /\ ~Busy(s) /\ call[s] = NoCall
    /\ saver' = [saver EXCEPT ![s].step = "asking"]
    /\ call' = [call EXCEPT ![s] = [NoCall EXCEPT !.stage = "sent", !.code = code]]
    /\ Overlaps(s)
    /\ UNCHANGED <<host, url, pin, token, ended, granted, out, good, faults>>

(* The answer, if it is a 201, is saved.  A save that nothing disturbs and *)
(* that has the token in force makes the files whole again.                *)
TakeAnswer(s) ==
    /\ saver[s].step = "asking" /\ call[s].stage \in {"granted", "refused"}
    /\ call' = [call EXCEPT ![s] = NoCall]
    /\ IF call[s].stage = "granted"
       THEN /\ saver' = [saver EXCEPT ![s] = [@ EXCEPT !.step = "url", !.run = call[s].token]]
            /\ torn' = (torn /\ (Busy(Other(s)) \/ call[s].token # good))
       ELSE saver' = [saver EXCEPT ![s] = Idle] /\ UNCHANGED torn
    /\ UNCHANGED <<host, url, pin, token, ended, granted, out, good, faults>>

(* No answer in time; the request may still be handled.                    *)
TimeOut(s) ==
    /\ saver[s].step = "asking" /\ Fault
    /\ saver' = [saver EXCEPT ![s] = Idle]
    /\ good' = IF call[s].stage = "granted" THEN 0 ELSE good
    /\ UNCHANGED <<host, call, url, pin, token, ended, granted, out, torn>>

(* An answer nobody waits for.                                             *)
Discard(s) ==
    /\ ~Busy(s) /\ call[s].stage \in {"granted", "refused"}
    /\ call' = [call EXCEPT ![s] = NoCall]
    /\ UNCHANGED <<host, phone, past, faults>>

(* SecureSyncConfig.save and clear: the address, the pin, the token last.  *)
SaveUrl(s) ==
    /\ saver[s].step = "url"
    /\ url' = saver[s].run /\ saver' = [saver EXCEPT ![s].step = "pin"]
    /\ UNCHANGED <<host, call, pin, token, past, faults>>

(* Mutant of SavePin: a pin that is there is kept.                         *)
SavePinOnce(s) ==
    /\ saver[s].step = "pin"
    /\ pin' = IF pin = 0 THEN saver[s].run ELSE pin
    /\ saver' = [saver EXCEPT ![s].step = "token"]
    /\ UNCHANGED <<host, call, url, token, past, faults>>

SavePin(s) ==
    /\ saver[s].step = "pin"
    /\ pin' = saver[s].run /\ saver' = [saver EXCEPT ![s].step = "token"]
    /\ UNCHANGED <<host, call, url, token, past, faults>>

(* The setup screen goes on to download the model with what it was given.  *)
SaveToken(s) ==
    /\ saver[s].step = "token"
    /\ token' = saver[s].run
    /\ saver' = [saver EXCEPT ![s] =
            IF s = "setup" /\ ~@.again
            THEN [@ EXCEPT !.step = "downloading", !.again = TRUE] ELSE Idle]
    /\ UNCHANGED <<host, call, url, pin, past, faults>>

(* A finished download saves the same endpoint once more; one that failed  *)
(* or was cancelled does not.                                              *)
DownloadEnds ==
    /\ saver["setup"].step = "downloading"
    /\ \/ saver' = [saver EXCEPT !["setup"].step = "url"]
       \/ saver' = [saver EXCEPT !["setup"] = Idle]
    /\ UNCHANGED <<host, call, url, pin, token, past, faults>>

(* The settings screen unpairs the phone.                                  *)
Wipe ==
    /\ ~Busy("settings") /\ call["settings"] = NoCall
    /\ url # 0 /\ token # 0
    /\ saver' = [saver EXCEPT !["settings"].step = "url"]
    /\ good' = 0 /\ Overlaps("settings")
    /\ UNCHANGED <<host, call, url, pin, token, ended, granted, out, faults>>

(* The phone's process dies.  A token that was granted and is not on its   *)
(* disk is lost.                                                           *)
Unsaved(s) ==
    \/ saver[s].step = "asking" /\ call[s].stage = "granted"
    \/ saver[s].step \in {"url", "pin", "token"} /\ ~saver[s].again

PhoneDies ==
    /\ \E s \in Saver : Busy(s)
    /\ Fault
    /\ saver' = [s \in Saver |-> Idle]
    /\ good' = IF \E s \in Saver : Unsaved(s) THEN 0 ELSE good
    /\ UNCHANGED <<host, call, url, pin, token, ended, granted, out, torn>>

Dashboard ==
    \/ Mint \/ MintFails \/ CancelPairing \/ Expire \/ Refresh
    \/ \E on \in BOOLEAN : SetEnabled(on)
    \/ \E d \in Device : Unpair(d)

Endpoint == \E c \in Client :
    \/ Admit(c) \/ RedeemNone(c) \/ RedeemWrong(c)
    \/ RedeemRight(c) \/ RedeemUnwritten(c) \/ DiesGranting(c)

Screens == \E s \in Saver :
    \/ \E code \in 1..minted : Scan(s, code)
    \/ TakeAnswer(s) \/ TimeOut(s) \/ Discard(s)
    \/ SaveUrl(s) \/ SavePin(s) \/ SaveToken(s)

Next ==
    \/ Dashboard \/ Endpoint \/ HostRestarts
    \/ Screens \/ DownloadEnds \/ Wipe \/ PhoneDies
    \/ \E code \in 0..minted : Ask(code)

Spec == Init /\ [][Next]_vars

(***************************************************************************)
(* Properties                                                              *)
(***************************************************************************)

(* However many requests race for a code, are given up or come late, at    *)
(* most one token is handed out for it.                                    *)
OneTokenPerCode == \A c \in Code : \A t, u \in granted[c] : t = u

(* No token is handed out for a code that was used up, cancelled, switched *)
(* off, superseded, guessed at too often, late, or lost in a restart, not  *)
(* even to a request that had passed the gate before.                      *)
GrantedWhileOffered ==
    [][\A c \in Code : granted'[c] # granted[c] => c \notin ended]_vars

(* A token whose end was written down is never accepted again, whatever    *)
(* restarts and failed writes follow.                                      *)
RevokedStaysOut ==
    \A t \in out, d \in Device : memory[d] # t /\ disk[d] # t

(* A phone that was given a token, and whose screens did not work at the   *)
(* same time, has it whole, with the address and the pin it came with; and *)
(* the PC accepts it, before and after a restart.  The token is no longer  *)
(* the phone's to use when the PC unpaired it, when it scanned again and   *)
(* the answer was lost or the PC could not write, or when it was wiped.    *)
PairedBothWays ==
    (/\ good # 0 /\ ~torn
     /\ \A s \in Saver : saver[s].step \in {"idle", "downloading"})
    => /\ {url, pin, token} = {good}
       /\ memory["own"] = good /\ disk["own"] = good

=============================================================================
