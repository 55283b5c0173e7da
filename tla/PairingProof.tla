----------------------------- MODULE PairingProof ---------------------------
(***************************************************************************)
(* What holds of pairing in every reachable state, for every number of     *)
(* attempts, codes, tokens and faults: a code buys a token while it is on  *)
(* offer, and only one; a token that was revoked stays revoked; and a      *)
(* phone that thinks itself paired is paired.                              *)
(*                                                                         *)
(* The inductive invariant adds                                            *)
(* - that codes and tokens are numbered as they are made, so that a new    *)
(*   one is neither ended nor held by anybody (CodeInv, TokenInv);         *)
(* - that no two devices hold the same token, in memory or on disk: the    *)
(*   one that is bound or unpaired ends no token of the other (TokenInv);  *)
(* - that the token the phone is to use is in the PC's memory and file     *)
(*   (HostInv), whatever the phone has got of it;                          *)
(* - that two screens that are both at work have torn the files, and what  *)
(*   a screen that works alone has written so far (AloneInv, FilesInv).    *)
(***************************************************************************)
EXTENDS Pairing, TLAPS

(* A code that is on offer and in time has not ended; those that were made *)
(* are all that have; and who was granted a token has used the code up.    *)
CodeInv ==
    /\ \A c \in ended \cup late : c <= minted
    /\ pending # NoCode =>
           /\ pending.code <= minted
           /\ pending.code \notin late => pending.code \notin ended
    /\ \A c \in Code : granted[c] # {} => c \in ended
    /\ OneTokenPerCode

Holds(d) == {memory[d], disk[d]}

TokenInv ==
    /\ \A t \in out : t <= issued
    /\ \A d \in Device : memory[d] <= issued /\ disk[d] <= issued
    /\ Holds("own") \cap Holds("other") \subseteq {0}
    /\ RevokedStaysOut

(* The token that is the phone's to use is the one the PC has for it.      *)
HostInv == good # 0 => memory["own"] = good /\ disk["own"] = good

(* Two screens work at the same time only over torn files.                 *)
AloneInv ==
    /\ ~torn => ~Busy("setup") \/ ~Busy("settings")
    /\ \A s \in Saver :
           /\ saver[s].step \in {"idle", "asking"} => ~saver[s].again
           /\ saver[s].step = "downloading" => saver[s].again

(* A token that was granted and waits to be read.                          *)
Coming(s) == saver[s].step = "asking" /\ call[s].stage = "granted"
Saving(s) == saver[s].step \in {"url", "pin", "token"}
Whole == url = good /\ pin = good /\ token = good

(* What is on the phone's disk of the token it should use.  A second save  *)
(* writes what is there already.                                           *)
FilesInv ==
    good # 0 /\ ~torn =>
        /\ \A s \in Saver :
               /\ Coming(s) => call[s].token = good
               /\ Saving(s) \/ saver[s].step = "downloading" => saver[s].run = good
               /\ saver[s].step \in {"pin", "token"} => url = good
               /\ saver[s].step = "token" => pin = good
        /\ (\A s \in Saver : ~Coming(s) /\ (Saving(s) => saver[s].again)) => Whole

PairInv == TypeOK /\ CodeInv /\ TokenInv /\ HostInv /\ AloneInv /\ FilesInv

-----------------------------------------------------------------------------
LEMMA Bounds ==
    /\ MaxAttempts \in Nat /\ MaxAttempts > 0 /\ MaxCodes \in Nat /\ MaxCodes > 0
    /\ MaxTokens \in Nat /\ MaxTokens > 0 /\ MaxFaults \in Nat /\ MaxFaults > 0
BY PairingBounds

LEMMA TheOther == Other("setup") = "settings" /\ Other("settings") = "setup"
<1>1. ASSUME NEW o \in Saver, o # "setup" PROVE o = "settings"
  BY <1>1 DEF Saver
<1>2. ASSUME NEW o \in Saver, o # "settings" PROVE o = "setup"
  BY <1>2 DEF Saver
<1>3. "settings" \in Saver /\ "setup" \in Saver /\ "setup" # "settings"
  BY DEF Saver
<1>4. Other("setup") = "settings"
  BY <1>1, <1>3 DEF Other
<1>5. Other("settings") = "setup"
  BY <1>2, <1>3 DEF Other
<1> QED BY <1>4, <1>5

(* The type invariant, with names for the sets of records.                 *)
Offers == {NoCode} \cup [code : Code, left : 1..MaxAttempts]
Calls == [stage : {"none", "sent", "admitted", "granted", "refused"},
          code : 0..MaxCodes, token : 0..MaxTokens]
Works == [step : {"idle", "asking", "url", "pin", "token", "downloading"},
          run : 0..MaxTokens, again : BOOLEAN]

HostTypes ==
    /\ enabled \in BOOLEAN /\ pending \in Offers
    /\ late \subseteq Code /\ ended \subseteq Code /\ out \subseteq Token
    /\ memory \in [Device -> 0..MaxTokens] /\ disk \in [Device -> 0..MaxTokens]
    /\ minted \in 0..MaxCodes /\ issued \in 0..MaxTokens /\ shown \in 0..MaxCodes
    /\ granted \in [Code -> SUBSET Token]
    /\ faults \in 0..MaxFaults

PhoneTypes ==
    /\ torn \in BOOLEAN
    /\ call \in [Client -> Calls] /\ saver \in [Saver -> Works]
    /\ {url, pin, token, good} \subseteq 0..MaxTokens

LEMMA TypeParts ==
    /\ TypeOK <=> HostTypes /\ PhoneTypes
    /\ TypeOK' <=> HostTypes' /\ PhoneTypes'
BY DEF TypeOK, HostTypes, PhoneTypes, Offers, Calls, Works

LEMMA Records ==
    /\ NoCode \in Offers /\ NoCall \in Calls /\ Idle \in Works
    /\ NoCode.code = 0 /\ NoCall.stage = "none" /\ NoCall.token = 0
    /\ Idle.step = "idle" /\ Idle.again = FALSE /\ Idle.run = 0
    /\ NoCode \notin [code : Code, left : 1..MaxAttempts]
BY Bounds DEF Offers, Calls, Works, NoCode, NoCall, Idle, Code

LEMMA Offered ==
    ASSUME NEW o \in Offers, o # NoCode
    PROVE  o.code \in Code /\ o.left \in 1..MaxAttempts
BY DEF Offers

LEMMA ReplyTypes ==
    ASSUME NEW c \in Client, NEW stage \in {"granted", "refused"}, NEW t \in 0..MaxTokens
    PROVE  /\ Reply(c, stage, t) \in Calls
           /\ c \in Saver => /\ Reply(c, stage, t).stage = stage
                             /\ Reply(c, stage, t).token = t
           /\ c \notin Saver => Reply(c, stage, t) = NoCall
BY Bounds DEF Reply, Calls, NoCall, Client, Saver

LEMMA RefusalTypes ==
    ASSUME NEW c \in Client
    PROVE  /\ Refusal(c) \in Calls /\ Refusal(c).stage # "granted"
           /\ Refused \in [Client -> Calls]
           /\ Refused[c].stage # "granted"
<1>1. \A d \in Client : Refusal(d) \in Calls /\ Refusal(d).stage # "granted"
  BY Bounds, ReplyTypes, Records DEF Refusal
<1> QED BY <1>1, Records DEF Refused

LEMMA TypeStart == Init => TypeOK
<1> SUFFICES ASSUME Init PROVE HostTypes /\ PhoneTypes
  BY TypeParts
<1>1. HostTypes
  BY Bounds, Records DEF Init, HostTypes
<1>2. PhoneTypes
  <2>1. 0 \in 0..MaxTokens
    BY Bounds
  <2>2. call \in [Client -> Calls] /\ saver \in [Saver -> Works]
    BY Records DEF Init
  <2> QED BY <2>1, <2>2 DEF Init, PhoneTypes
<1> QED BY <1>1, <1>2

LEMMA DashboardTypes ==
    ASSUME TypeOK, Dashboard
    PROVE  TypeOK'
<1>1. HostTypes /\ PhoneTypes
  BY TypeParts
<1>2. PhoneTypes'
  <2>1. UNCHANGED <<call, saver, url, pin, token, torn>> /\ good' \in {0, good}
    BY DEF Dashboard, Mint, MintFails, CancelPairing, Expire, Refresh, SetEnabled, Unpair,
           phone, past
  <2> QED BY <1>1, <2>1, Bounds DEF PhoneTypes
<1>3. HostTypes'
  <2> USE Bounds, <1>1 DEF HostTypes
  <2>1. PendingEnded \subseteq Code /\ NoCode \in Offers
    BY Offered, Records DEF PendingEnded
  <2>2. CASE Mint \/ MintFails
    <3>1. minted' \in Code /\ minted' \in 0..MaxCodes
      BY <2>2 DEF Mint, MintFails, Code
    <3>2. [code |-> minted', left |-> MaxAttempts] \in Offers
      BY <3>1 DEF Offers
    <3>3. CASE Mint
      BY <2>1, <3>1, <3>2, <3>3 DEF Mint
    <3>4. CASE MintFails
      <4>1. {minted'} \subseteq Code
        BY <3>1
      <4> QED BY <2>1, <3>1, <3>4, <4>1 DEF MintFails, Fault
    <3> QED BY <2>2, <3>3, <3>4
  <2>3. CASE CancelPairing
    BY <2>1, <2>3 DEF CancelPairing
  <2>4. CASE Expire
    BY <2>1, <2>4, Offered DEF Expire
  <2>5. CASE Refresh
    BY <2>5 DEF Refresh, past
  <2>6. CASE \E on \in BOOLEAN : SetEnabled(on)
    BY <2>1, <2>6 DEF SetEnabled
  <2>7. CASE \E d \in Device : Unpair(d)
    <3>1. PICK d \in Device : Unpair(d)
      BY <2>7
    <3>2. memory' \in [Device -> 0..MaxTokens]
      BY <3>1 DEF Unpair
    <3>3. out \cup Ends(memory') \subseteq Token
      BY DEF Ends
    <3>4. \/ disk' = memory' /\ out' = out \cup Ends(memory') /\ faults' = faults
          \/ disk' = disk /\ out' = out /\ Fault
      BY <3>1 DEF Unpair
    <3>5. faults' \in 0..MaxFaults
      BY <3>4 DEF Fault
    <3>6. disk' \in [Device -> 0..MaxTokens] /\ out' \subseteq Token
      BY <3>2, <3>3, <3>4
    <3> QED BY <3>1, <3>2, <3>5, <3>6 DEF Unpair
  <2> QED BY <2>2, <2>3, <2>4, <2>5, <2>6, <2>7 DEF Dashboard
<1> QED BY <1>2, <1>3, TypeParts

(* A new token, and what the right code makes of the host's maps.          *)
LEMMA RightTypes ==
    ASSUME TypeOK, NEW c \in Client, Right(c)
    PROVE  /\ issued' \in Token /\ issued' \in 0..MaxTokens /\ issued' = issued + 1
           /\ pending # NoCode /\ pending.code \in Code
           /\ DeviceOf(c) \in Device
           /\ Bound(c) = [memory EXCEPT ![DeviceOf(c)] = issued']
           /\ Bound(c) \in [Device -> 0..MaxTokens]
           /\ \A d \in Device : Bound(c)[d] = IF d = DeviceOf(c) THEN issued' ELSE memory[d]
           /\ out \cup Ends(Bound(c)) \subseteq Token
<1>1. HostTypes
  BY TypeParts
<1>2. issued' \in Token /\ issued' \in 0..MaxTokens /\ issued' = issued + 1
  BY <1>1, Bounds DEF Right, Token, HostTypes
<1>3. pending # NoCode /\ pending.code \in Code
  BY <1>1, Offered DEF HostTypes, Right, Redeemable
<1>4. DeviceOf(c) \in Device
  BY DEF DeviceOf, Device
<1>5. Bound(c) = [memory EXCEPT ![DeviceOf(c)] = issued']
  BY DEF Bound
<1>6. Bound(c) \in [Device -> 0..MaxTokens]
  BY <1>1, <1>2, <1>4, <1>5 DEF HostTypes
<1>7. \A d \in Device : Bound(c)[d] = IF d = DeviceOf(c) THEN issued' ELSE memory[d]
  BY <1>1, <1>4, <1>5 DEF HostTypes
<1>8. out \cup Ends(Bound(c)) \subseteq Token
  BY <1>1 DEF HostTypes, Ends
<1> QED BY <1>2, <1>3, <1>4, <1>5, <1>6, <1>7, <1>8

LEMMA EndpointTypes ==
    ASSUME TypeOK, Endpoint \/ HostRestarts
    PROVE  TypeOK'
<1>1. HostTypes /\ PhoneTypes
  BY TypeParts
<1>2. PendingEnded \subseteq Code /\ NoCode \in Offers
  BY <1>1, Offered, Records DEF PendingEnded, HostTypes
<1>3. GoodAfterCrash \in 0..MaxTokens
  BY <1>1, Bounds DEF GoodAfterCrash, PhoneTypes
<1>4. "other" \in Client
  BY DEF Client
<1>5. CASE HostRestarts
  <2>1. HostTypes'
    BY <1>1, <1>2, <1>5, Bounds DEF HostRestarts, Fault, HostTypes
  <2>2. PhoneTypes'
    BY <1>1, <1>3, <1>4, <1>5, RefusalTypes DEF HostRestarts, PhoneTypes, phone
  <2> QED BY <2>1, <2>2, TypeParts
<1>6. ASSUME NEW c \in Client, Admit(c) PROVE TypeOK'
  <2>1. [call[c] EXCEPT !.stage = "admitted"] \in Calls
    BY <1>1 DEF PhoneTypes, Calls
  <2>2. PhoneTypes'
    BY <1>1, <1>6, <2>1, RefusalTypes DEF Admit, PhoneTypes, phone, past
  <2>3. HostTypes'
    BY <1>1, <1>6 DEF Admit, HostTypes, host, past
  <2> QED BY <2>2, <2>3, TypeParts
<1>7. ASSUME NEW c \in Client, RedeemNone(c) PROVE TypeOK'
  <2>1. PhoneTypes'
    BY <1>1, <1>7, RefusalTypes DEF RedeemNone, PhoneTypes, phone, past
  <2>2. HostTypes'
    BY <1>1, <1>2, <1>7 DEF RedeemNone, HostTypes, past
  <2> QED BY <2>1, <2>2, TypeParts
<1>8. ASSUME NEW c \in Client, RedeemWrong(c) PROVE TypeOK'
  <2>1. PhoneTypes'
    BY <1>1, <1>8, RefusalTypes DEF RedeemWrong, PhoneTypes, phone
  <2>2. ASSUME pending.left # 1 PROVE [pending EXCEPT !.left = @ - 1] \in Offers
    BY <1>1, <1>8, <2>2, Bounds DEF RedeemWrong, Redeemable, HostTypes, Offers
  <2>3. pending' \in Offers /\ ended' \subseteq Code
    BY <1>1, <1>2, <1>8, <2>2 DEF RedeemWrong, HostTypes
  <2>4. HostTypes'
    BY <1>1, <1>8, <2>3 DEF RedeemWrong, HostTypes
  <2> QED BY <2>1, <2>4, TypeParts
<1>9. ASSUME NEW c \in Client, Right(c), NEW t \in {0, issued'}
      PROVE  GoodAfter(c, t) \in 0..MaxTokens
  BY <1>1, <1>9, RightTypes, Bounds DEF GoodAfter, PhoneTypes
<1>10. ASSUME NEW c \in Client, RedeemRight(c) PROVE TypeOK'
  <2>1. Right(c)
    BY <1>10 DEF RedeemRight
  <2>2. Reply(c, "granted", issued') \in Calls
    BY <2>1, RightTypes, ReplyTypes
  <2>3. good' \in 0..MaxTokens
    BY <1>9, <1>10, <2>1 DEF RedeemRight
  <2>4. PhoneTypes'
    BY <1>1, <1>10, <2>2, <2>3 DEF RedeemRight, PhoneTypes, phone
  <2>5. granted' \in [Code -> SUBSET Token]
    BY <1>1, <1>10, <2>1, RightTypes DEF RedeemRight, HostTypes
  <2>6. memory' \in [Device -> 0..MaxTokens] /\ disk' = memory' /\ out' \subseteq Token
    BY <1>10, <2>1, RightTypes DEF RedeemRight
  <2>7. HostTypes'
    BY <1>1, <1>2, <1>10, <2>1, <2>5, <2>6, RightTypes DEF RedeemRight, HostTypes
  <2> QED BY <2>4, <2>7, TypeParts
<1>11. ASSUME NEW c \in Client, RedeemUnwritten(c) PROVE TypeOK'
  <2>1. Right(c)
    BY <1>11 DEF RedeemUnwritten
  <2>2. good' \in 0..MaxTokens
    BY <1>9, <1>11, <2>1 DEF RedeemUnwritten
  <2>3. PhoneTypes'
    BY <1>1, <1>11, <2>2, RefusalTypes DEF RedeemUnwritten, PhoneTypes, phone
  <2>4. HostTypes'
    BY <1>1, <1>11, <2>1, RightTypes, Bounds DEF RedeemUnwritten, HostTypes, Fault
  <2> QED BY <2>3, <2>4, TypeParts
<1>12. ASSUME NEW c \in Client, DiesGranting(c) PROVE TypeOK'
  <2>1. Right(c)
    BY <1>12 DEF DiesGranting
  <2>2. good' \in 0..MaxTokens
    BY <1>3, <1>12, Bounds DEF DiesGranting
  <2>3. PhoneTypes'
    BY <1>1, <1>12, <2>2, RefusalTypes DEF DiesGranting, PhoneTypes, phone
  <2>4. HostTypes'
    BY <1>1, <1>2, <1>12, <2>1, RightTypes, Bounds DEF DiesGranting, HostTypes, Fault
  <2> QED BY <2>3, <2>4, TypeParts
<1> QED BY <1>5, <1>6, <1>7, <1>8, <1>10, <1>11, <1>12 DEF Endpoint

LEMMA ScreenTypes ==
    ASSUME TypeOK, Screens \/ DownloadEnds \/ Wipe \/ PhoneDies \/ \E code \in 0..minted : Ask(code)
    PROVE  TypeOK'
<1>1. HostTypes /\ PhoneTypes
  BY TypeParts
<1>2. HostTypes'
  <2>1. UNCHANGED <<host, ended, granted, out>> /\ (faults' = faults \/ Fault)
    BY DEF Screens, Scan, TakeAnswer, TimeOut, Discard, SaveUrl, SavePin, SaveToken,
           DownloadEnds, Wipe, PhoneDies, Ask, past
  <2> QED BY <1>1, <2>1, Bounds DEF HostTypes, host, Fault
<1>3. PhoneTypes'
  <2> USE <1>1, Bounds DEF PhoneTypes
  <2>1. "other" \in Client /\ Saver \subseteq Client /\ "setup" \in Saver /\ "settings" \in Saver
    BY DEF Client, Saver
  <2>2. \A w \in Works : w.run \in 0..MaxTokens
    BY DEF Works
  <2>3. \A w \in Works : \A x \in {"asking", "url", "pin", "token", "downloading"} :
            /\ [w EXCEPT !.step = x] \in Works
            /\ [w EXCEPT !.step = x, !.again = TRUE] \in Works
    BY DEF Works
  <2>4. \A w \in Works : \A t \in 0..MaxTokens : [w EXCEPT !.step = "url", !.run = t] \in Works
    BY DEF Works
  <2>5. \A k \in 0..MaxCodes : [NoCall EXCEPT !.stage = "sent", !.code = k] \in Calls
    <3>1. \A k \in 0..MaxCodes, w \in Calls :
              [w EXCEPT !.stage = "sent", !.code = k] \in Calls
      BY DEF Calls
    <3> QED BY <3>1, Records
  <2>6. \A k \in Calls : k.token \in 0..MaxTokens
    BY DEF Calls
  <2>7. 1..minted \subseteq 0..MaxCodes /\ 0..minted \subseteq 0..MaxCodes
    BY DEF HostTypes
  <2>8. ASSUME NEW s \in Saver, NEW code \in 1..minted, Scan(s, code) PROVE PhoneTypes'
    BY <2>1, <2>3, <2>5, <2>7, <2>8 DEF Scan, Overlaps
  <2>9. ASSUME NEW s \in Saver, TakeAnswer(s) PROVE PhoneTypes'
    <3>1. call' \in [Client -> Calls]
      BY <2>1, <2>9, Records DEF TakeAnswer
    <3>2. saver' \in [Saver -> Works]
      <4>1. call[s].token \in 0..MaxTokens /\ saver[s] \in Works
        BY <2>1, <2>6
      <4>2. [saver[s] EXCEPT !.step = "url", !.run = call[s].token] \in Works
        BY <2>4, <4>1
      <4> QED BY <2>9, <4>2, Records DEF TakeAnswer
    <3> QED BY <2>9, <3>1, <3>2 DEF TakeAnswer
  <2>10. ASSUME NEW s \in Saver, TimeOut(s) PROVE PhoneTypes'
    BY <2>10, Records DEF TimeOut
  <2>11. ASSUME NEW s \in Saver, Discard(s) PROVE PhoneTypes'
    BY <2>1, <2>11, Records DEF Discard, phone, past
  <2>12. ASSUME NEW s \in Saver, SaveUrl(s) \/ SavePin(s) PROVE PhoneTypes'
    <3>1. saver[s] \in Works /\ saver[s].run \in 0..MaxTokens
      BY <2>2
    <3>2. /\ [saver[s] EXCEPT !.step = "pin"] \in Works
          /\ [saver[s] EXCEPT !.step = "token"] \in Works
      BY <2>3, <3>1
    <3>3. saver' \in [Saver -> Works]
      BY <2>12, <3>2 DEF SaveUrl, SavePin
    <3> QED BY <2>12, <3>1, <3>3 DEF SaveUrl, SavePin, past
  <2>13. ASSUME NEW s \in Saver, SaveToken(s) PROVE PhoneTypes'
    BY <2>2, <2>3, <2>13, Records DEF SaveToken, past
  <2>14. CASE DownloadEnds
    <3>1. [saver["setup"] EXCEPT !.step = "url"] \in Works
      BY <2>1, <2>3
    <3>2. saver' \in [Saver -> Works]
      BY <2>1, <2>14, <3>1, Records DEF DownloadEnds
    <3> QED BY <2>14, <3>2 DEF DownloadEnds, past
  <2>15. CASE Wipe
    <3>1. [saver["settings"] EXCEPT !.step = "url"] \in Works
      BY <2>1, <2>3
    <3>2. saver' \in [Saver -> Works]
      BY <2>1, <2>15, <3>1 DEF Wipe
    <3> QED BY <2>15, <3>2 DEF Wipe, Overlaps
  <2>16. CASE PhoneDies
    BY <2>16, Records DEF PhoneDies
  <2>17. CASE \E code \in 0..minted : Ask(code)
    BY <2>1, <2>5, <2>7, <2>17 DEF Ask, phone, past
  <2> QED
    BY <2>8, <2>9, <2>10, <2>11, <2>12, <2>13, <2>14, <2>15, <2>16, <2>17 DEF Screens
<1> QED BY <1>2, <1>3, TypeParts

LEMMA TypeStep ==
    ASSUME TypeOK, [Next]_vars
    PROVE  TypeOK'
<1>1. CASE UNCHANGED vars
  BY <1>1 DEF vars, TypeOK, host, phone, past
<1> QED BY <1>1, DashboardTypes, EndpointTypes, ScreenTypes DEF Next

-----------------------------------------------------------------------------
(* Who touches what.                                                       *)

LEMMA Touches ==
    ASSUME [Next]_vars
    PROVE  /\ \/ UNCHANGED <<memory, disk, out, issued>>
              \/ (\E d \in Device : Unpair(d)) \/ HostRestarts
              \/ \E c \in Client : RedeemRight(c) \/ RedeemUnwritten(c) \/ DiesGranting(c)
           /\ \/ UNCHANGED <<pending, ended, late, minted, granted>>
              \/ Mint \/ MintFails \/ CancelPairing \/ Expire \/ HostRestarts
              \/ (\E on \in BOOLEAN : SetEnabled(on))
              \/ \E c \in Client : RedeemNone(c) \/ RedeemWrong(c)
                                       \/ RedeemRight(c) \/ DiesGranting(c)
           /\ \/ UNCHANGED <<saver, url, pin, token, torn>>
              \/ Screens \/ DownloadEnds \/ Wipe \/ PhoneDies
           /\ \/ UNCHANGED call
              \/ Endpoint \/ HostRestarts \/ Screens
              \/ \E code \in 0..minted : Ask(code)
           /\ \/ good' = good \/ good' = 0
              \/ \E c \in Client : RedeemRight(c)
<1> USE DEF host, phone, past
<1>1. CASE UNCHANGED vars
  BY <1>1 DEF vars
<1>2. CASE Dashboard
  BY <1>2
  DEF Dashboard, Mint, MintFails, CancelPairing, Expire, Refresh, SetEnabled, Unpair
<1>3. CASE HostRestarts
  BY <1>3 DEF HostRestarts, GoodAfterCrash
<1>4. CASE Endpoint
  BY <1>4
  DEF Endpoint, Admit, RedeemNone, RedeemWrong, RedeemRight, RedeemUnwritten, DiesGranting,
      GoodAfterCrash, GoodAfter
<1>5. CASE Screens
  BY <1>5
  DEF Screens, Scan, TakeAnswer, TimeOut, Discard, SaveUrl, SavePin, SaveToken
<1>6. CASE DownloadEnds \/ Wipe \/ PhoneDies \/ \E code \in 0..minted : Ask(code)
  BY <1>6 DEF DownloadEnds, Wipe, PhoneDies, Ask
<1> QED BY <1>1, <1>2, <1>3, <1>4, <1>5, <1>6 DEF Next

-----------------------------------------------------------------------------
(* Codes.                                                                  *)

LEMMA CodeStep ==
    ASSUME TypeOK, CodeInv, [Next]_vars
    PROVE  CodeInv'
<1>1. /\ minted \in Nat /\ pending \in Offers /\ ended \subseteq Code /\ late \subseteq Code
      /\ granted \in [Code -> SUBSET Token] /\ Code \subseteq Nat
      /\ pending # NoCode => pending.code \in Code
  BY TypeParts, Offered DEF HostTypes, Code
<1> USE <1>1 DEF CodeInv, OneTokenPerCode
<1>2. /\ PendingEnded \subseteq Code /\ ended \subseteq PendingEnded
      /\ \A c \in PendingEnded : c <= minted
      /\ pending # NoCode => pending.code \in PendingEnded
  BY DEF PendingEnded
<1>3. CASE UNCHANGED <<pending, ended, late, minted, granted>>
  BY <1>3
<1>4. CASE Mint
  <2>1. /\ minted' = minted + 1 /\ pending'.code = minted'
        /\ ended' = PendingEnded /\ UNCHANGED <<late, granted>>
    BY <1>4 DEF Mint
  <2> QED BY <1>2, <2>1
<1>5. CASE MintFails
  <2>1. /\ minted' = minted + 1 /\ pending' = NoCode
        /\ ended' = PendingEnded \cup {minted'} /\ UNCHANGED <<late, granted>>
    BY <1>5 DEF MintFails
  <2> QED BY <1>2, <2>1
<1>6. CASE CancelPairing \/ HostRestarts
  <2>1. pending' = NoCode /\ ended' = PendingEnded /\ UNCHANGED <<late, minted, granted>>
    BY <1>6 DEF CancelPairing, HostRestarts
  <2> QED BY <1>2, <2>1
<1>7. CASE \E on \in BOOLEAN : SetEnabled(on)
  <2>1. /\ \/ pending' = NoCode /\ ended' = PendingEnded
           \/ pending' = pending /\ ended' = ended
        /\ UNCHANGED <<late, minted, granted>>
    BY <1>7 DEF SetEnabled
  <2> QED BY <1>2, <2>1
<1>8. CASE Expire
  <2>1. /\ pending # NoCode /\ late' = late \cup {pending.code} /\ ended' = PendingEnded
        /\ UNCHANGED <<pending, minted, granted>>
    BY <1>8 DEF Expire
  <2> QED BY <1>2, <2>1
<1>9. ASSUME NEW c \in Client, RedeemNone(c) PROVE CodeInv'
  <2>1. pending' = NoCode /\ UNCHANGED <<ended, late, minted, granted>>
    BY <1>9 DEF RedeemNone, past
  <2> QED BY <2>1
<1>10. ASSUME NEW c \in Client, RedeemWrong(c) PROVE CodeInv'
  <2>1. UNCHANGED <<late, minted, granted>> /\ pending # NoCode
    BY <1>10 DEF RedeemWrong, Redeemable
  <2>2. CASE pending.left = 1
    <3>1. pending' = NoCode /\ ended' = PendingEnded
      BY <1>10, <2>2 DEF RedeemWrong
    <3> QED BY <1>2, <2>1, <3>1
  <2>3. CASE pending.left # 1
    <3>1. pending' = [pending EXCEPT !.left = @ - 1] /\ ended' = ended
      BY <1>10, <2>3 DEF RedeemWrong
    <3>2. pending'.code = pending.code
      BY <2>1, <3>1 DEF Offers
    <3> QED BY <2>1, <3>1, <3>2
  <2> QED BY <2>2, <2>3
<1>11. ASSUME NEW c \in Client, RedeemRight(c) PROVE CodeInv'
  <2>1. /\ pending # NoCode /\ pending.code \notin late /\ pending' = NoCode
        /\ ended' = PendingEnded /\ UNCHANGED <<late, minted>>
    BY <1>11 DEF RedeemRight, Right, Redeemable
  <2>2. granted' = [granted EXCEPT ![pending.code] = @ \cup {issued'}]
    BY <1>11 DEF RedeemRight
  <2>3. granted[pending.code] = {}
    BY <2>1
  <2>4. \A k \in Code : granted'[k] = IF k = pending.code THEN {issued'} ELSE granted[k]
    BY <2>2, <2>3
  <2> QED BY <1>2, <2>1, <2>4
<1>12. ASSUME NEW c \in Client, DiesGranting(c) PROVE CodeInv'
  <2>1. pending' = NoCode /\ ended' = PendingEnded /\ UNCHANGED <<late, minted, granted>>
    BY <1>12 DEF DiesGranting
  <2> QED BY <1>2, <2>1
<1> QED
  BY <1>3, <1>4, <1>5, <1>6, <1>7, <1>8, <1>9, <1>10, <1>11, <1>12, Touches

(* A token is handed out for the code that is on offer, and in time.       *)
LEMMA GrantStep ==
    ASSUME TypeOK, CodeInv, [Next]_vars, NEW c \in Code, granted'[c] # granted[c]
    PROVE  c \notin ended
<1>1. PICK k \in Client : RedeemRight(k)
  BY Touches
  DEF Mint, MintFails, CancelPairing, Expire, HostRestarts, SetEnabled, RedeemNone,
      RedeemWrong, DiesGranting, past
<1>2. /\ pending # NoCode /\ pending.code \notin late
      /\ granted' = [granted EXCEPT ![pending.code] = @ \cup {issued'}]
  BY <1>1 DEF RedeemRight, Right, Redeemable
<1>3. c = pending.code
  BY <1>2, TypeParts DEF HostTypes
<1> QED BY <1>2, <1>3 DEF CodeInv

-----------------------------------------------------------------------------
(* Tokens.                                                                 *)

(* A device's token is replaced by a new one, or by none: what that ends   *)
(* nobody holds, and nobody else held.                                     *)
LEMMA MapChanged ==
    ASSUME TypeOK, TokenInv, NEW d \in Device, NEW t \in Nat, t = 0 \/ t > issued,
           memory' = [memory EXCEPT ![d] = t]
    PROVE  /\ \A e \in Device : memory'[e] = IF e = d THEN t ELSE memory[e]
           /\ \A u \in out \cup Ends(memory') : u <= issued
           /\ \A u \in out \cup Ends(memory'), e \in Device : memory'[e] # u
<1>1. /\ memory \in [Device -> 0..MaxTokens] /\ disk \in [Device -> 0..MaxTokens]
      /\ out \subseteq Token /\ issued \in Nat /\ Token \subseteq Nat \ {0}
  BY TypeParts DEF HostTypes, Token
<1>2. \A e \in Device : memory'[e] = IF e = d THEN t ELSE memory[e]
  BY <1>1
<1>3. \A u \in out \cup Ends(memory') : u <= issued /\ u \in Nat \ {0}
  BY <1>1 DEF TokenInv, Ends
<1>4. ASSUME NEW u \in out, NEW e \in Device PROVE memory'[e] # u
  BY <1>1, <1>2, <1>3, <1>4 DEF TokenInv, RevokedStaysOut
<1>5. ASSUME NEW u \in Ends(memory'), NEW e \in Device PROVE memory'[e] # u
  <2>1. u \in Token /\ \E f \in Device : u \in {memory[f], disk[f]} /\ memory'[f] # u
    BY <1>5 DEF Ends
  <2>2. PICK f \in Device : u \in {memory[f], disk[f]} /\ memory'[f] # u
    BY <2>1
  <2>3. CASE e = d
    <3>1. u <= issued /\ u \in Nat \ {0} /\ memory'[e] = t
      BY <1>2, <1>3, <1>5, <2>3
    <3> QED BY <1>1, <3>1
  <2>4. CASE e # d
    <3>1. memory'[e] = memory[e]
      BY <1>2, <2>4
    <3>2. CASE f # e
      <4>1. u # 0 /\ u \in Holds(f)
        BY <1>3, <1>5, <2>2 DEF Holds
      <4>2. u \notin Holds(e)
        BY <3>2, <4>1 DEF TokenInv, Device
      <4> QED BY <3>1, <4>2 DEF Holds
    <3> QED BY <2>2, <3>2
  <2> QED BY <2>3, <2>4
<1> QED BY <1>2, <1>3, <1>4, <1>5

LEMMA TokenStep ==
    ASSUME TypeOK, TokenInv, [Next]_vars
    PROVE  TokenInv'
<1>1. /\ memory \in [Device -> 0..MaxTokens] /\ disk \in [Device -> 0..MaxTokens]
      /\ out \subseteq Token /\ issued \in Nat /\ Token \subseteq Nat \ {0}
      /\ "own" \in Device /\ "other" \in Device
  BY TypeParts DEF HostTypes, Token, Device
<1>2. CASE UNCHANGED <<memory, disk, out, issued>>
  BY <1>2 DEF TokenInv, Holds, RevokedStaysOut
<1>3. CASE HostRestarts
  <2>1. memory' = disk /\ UNCHANGED <<disk, out, issued>>
    BY <1>3 DEF HostRestarts
  <2> QED BY <1>1, <2>1 DEF TokenInv, Holds, RevokedStaysOut
<1>4. ASSUME NEW d \in Device, NEW t \in Nat, t = 0 \/ t > issued,
             issued' = issued \/ (issued' = issued + 1 /\ t = issued'),
             t = 0 \/ t = issued',
             memory' = [memory EXCEPT ![d] = t],
             \/ disk' = memory' /\ out' = out \cup Ends(memory')
             \/ disk' = disk /\ out' = out
      PROVE  TokenInv'
  <2>1. /\ \A e \in Device : memory'[e] = IF e = d THEN t ELSE memory[e]
        /\ \A u \in out \cup Ends(memory') : u <= issued
        /\ \A u \in out \cup Ends(memory'), e \in Device : memory'[e] # u
    BY <1>4, MapChanged
  <2>2. issued <= issued' /\ issued' \in Nat
    BY <1>1, <1>4
  <2>3. \A u \in out' : u <= issued'
    <3>1. ASSUME NEW u \in out \cup Ends(memory') PROVE u <= issued'
      <4>1. u \in Nat /\ u <= issued
        BY <1>1, <2>1, <3>1 DEF Ends
      <4> QED BY <1>1, <2>2, <4>1
    <3> QED BY <1>4, <3>1
  <2>4. \A e \in Device : memory[e] \in Nat /\ disk[e] \in Nat
                              /\ memory[e] <= issued /\ disk[e] <= issued
    BY <1>1 DEF TokenInv
  <2>5. \A e \in Device : memory'[e] <= issued' /\ disk'[e] <= issued'
    BY <1>1, <1>4, <2>1, <2>2, <2>4
  <2>6. Holds("own")' \cap Holds("other")' \subseteq {0}
    <3>1. \A e \in Device : disk'[e] \in {memory'[e], disk[e]}
      BY <1>4
    <3>2. d = "own" \/ d = "other"
      BY DEF Device
    <3>3. Holds("own") \cap Holds("other") \subseteq {0}
      BY DEF TokenInv
    <3>4. t = 0 \/ \A e \in Device : memory[e] # t /\ disk[e] # t
      BY <1>1, <1>4, <2>4
    <3> QED BY <1>1, <2>1, <3>1, <3>2, <3>3, <3>4 DEF Holds
  <2>7. RevokedStaysOut'
    <3>1. \A u \in out, e \in Device : disk[e] # u
      BY DEF TokenInv, RevokedStaysOut
    <3> QED BY <1>4, <2>1, <3>1 DEF RevokedStaysOut
  <2> QED BY <2>3, <2>5, <2>6, <2>7 DEF TokenInv
<1>5. ASSUME NEW d \in Device, Unpair(d) PROVE TokenInv'
  <2>1. memory' = [memory EXCEPT ![d] = 0] /\ UNCHANGED issued
    BY <1>5 DEF Unpair
  <2>2. \/ disk' = memory' /\ out' = out \cup Ends(memory')
        \/ disk' = disk /\ out' = out
    BY <1>5 DEF Unpair
  <2> QED BY <1>4, <2>1, <2>2
<1>6. ASSUME NEW c \in Client, Right(c)
      PROVE  issued' \in Nat /\ issued' > issued /\ issued' = issued + 1 /\ DeviceOf(c) \in Device
             /\ Bound(c) = [memory EXCEPT ![DeviceOf(c)] = issued']
  BY <1>1, <1>6, RightTypes
<1>7. ASSUME NEW c \in Client, RedeemRight(c) PROVE TokenInv'
  <2>1. /\ Right(c) /\ memory' = Bound(c) /\ disk' = memory'
        /\ out' = out \cup Ends(memory')
    BY <1>7 DEF RedeemRight
  <2> QED BY <1>4, <1>6, <2>1
<1>8. ASSUME NEW c \in Client, RedeemUnwritten(c) PROVE TokenInv'
  <2>1. Right(c) /\ memory' = Bound(c) /\ disk' = disk /\ out' = out
    BY <1>8 DEF RedeemUnwritten
  <2> QED BY <1>4, <1>6, <2>1
<1>9. ASSUME NEW c \in Client, DiesGranting(c) PROVE TokenInv'
  <2>1. /\ Right(c) /\ memory' = Bound(c) /\ disk' = memory'
        /\ out' = out \cup Ends(memory')
    BY <1>9 DEF DiesGranting
  <2> QED BY <1>4, <1>6, <2>1
<1> QED BY <1>2, <1>3, <1>5, <1>7, <1>8, <1>9, Touches

LEMMA HostStep ==
    ASSUME TypeOK, HostInv, [Next]_vars
    PROVE  HostInv'
<1>1. /\ memory \in [Device -> 0..MaxTokens] /\ disk \in [Device -> 0..MaxTokens]
      /\ "own" \in Device /\ "other" \in Device /\ "own" # "other"
  BY TypeParts DEF HostTypes, Device
<1>2. ASSUME NEW c \in Client, Right(c), memory' = Bound(c)
      PROVE  memory'["own"] = IF c = "other" THEN memory["own"] ELSE issued'
  BY <1>1, <1>2, RightTypes DEF DeviceOf
<1>3. ASSUME NEW c \in Client, RedeemRight(c) PROVE HostInv'
  <2>1. Right(c) /\ memory' = Bound(c) /\ disk' = memory'
        /\ good' = GoodAfter(c, IF Waits(c) THEN issued' ELSE 0)
    BY <1>3 DEF RedeemRight
  <2>2. CASE c = "other"
    <3>1. good' = good /\ memory'["own"] = memory["own"]
      BY <1>2, <2>1, <2>2 DEF GoodAfter, DeviceOf
    <3> QED BY <2>1, <3>1 DEF HostInv
  <2>3. CASE c # "other"
    <3>1. good' \in {0, issued'} /\ memory'["own"] = issued'
      BY <1>2, <2>1, <2>3 DEF GoodAfter, DeviceOf
    <3> QED BY <2>1, <3>1 DEF HostInv
  <2> QED BY <2>2, <2>3
<1>4. CASE good' = good
  <2>1. CASE UNCHANGED <<memory, disk, out, issued>>
    BY <1>4, <2>1 DEF HostInv
  <2>2. CASE HostRestarts
    BY <1>4, <2>2 DEF HostRestarts, HostInv
  <2>3. ASSUME NEW d \in Device, Unpair(d) PROVE HostInv'
    <3>1. CASE d = "own"
      BY <2>3, <3>1 DEF Unpair, HostInv
    <3>2. CASE d # "own"
      <4>1. memory'["own"] = memory["own"] /\ disk'["own"] \in {memory["own"], disk["own"]}
        BY <1>1, <2>3, <3>2 DEF Unpair
      <4> QED BY <1>4, <4>1 DEF HostInv
    <3> QED BY <3>1, <3>2
  <2>4. ASSUME NEW c \in Client, RedeemUnwritten(c) \/ DiesGranting(c) PROVE HostInv'
    <3>1. Right(c) /\ memory' = Bound(c) /\ (disk' = disk \/ disk' = memory')
      BY <2>4 DEF RedeemUnwritten, DiesGranting
    <3>2. CASE c = "other"
      BY <1>2, <1>4, <3>1, <3>2 DEF HostInv
    <3>3. CASE c # "other"
      BY <2>4, <3>3 DEF RedeemUnwritten, DiesGranting, GoodAfter, DeviceOf, HostInv
    <3> QED BY <3>2, <3>3
  <2> QED BY <1>3, <2>1, <2>2, <2>3, <2>4, Touches
<1>5. CASE good' = 0
  BY <1>5 DEF HostInv
<1> QED BY <1>3, <1>4, <1>5, Touches

-----------------------------------------------------------------------------
(* The screens.                                                            *)

LEMMA TwoScreens ==
    ASSUME NEW s \in Saver
    PROVE  /\ Other(s) \in Saver /\ Other(s) # s
           /\ \A x \in Saver : x = s \/ x = Other(s)
           /\ s # "other" /\ s \in Client /\ "other" \in Client
BY TheOther DEF Saver, Client

LEMMA AloneMeans ==
    ASSUME AloneInv, ~torn, NEW s \in Saver, Busy(s)
    PROVE  ~Busy(Other(s))
BY TheOther DEF AloneInv, Saver

(* What a screen does to its own record, and to nobody else's.             *)
LEMMA SaverAfter ==
    ASSUME TypeOK, NEW s \in Saver, NEW w, saver' = [saver EXCEPT ![s] = w]
    PROVE  saver'[s] = w /\ saver'[Other(s)] = saver[Other(s)]
BY TypeParts, TwoScreens DEF PhoneTypes

LEMMA AloneStep ==
    ASSUME TypeOK, AloneInv, [Next]_vars
    PROVE  AloneInv'
<1>1. saver \in [Saver -> Works] /\ "setup" \in Saver /\ "settings" \in Saver
  BY TypeParts DEF PhoneTypes, Saver
<1>2. CASE UNCHANGED <<saver, url, pin, token, torn>>
  BY <1>2 DEF AloneInv, Busy
<1>3. ASSUME NEW s \in Saver, NEW w \in Works,
             saver' = [saver EXCEPT ![s] = w],
             ~torn' => ~Busy(Other(s)) \/ w.step = "idle"
                           \/ (~torn /\ Busy(s)),
             w.step \in {"idle", "asking"} => ~w.again,
             w.step = "downloading" => w.again
      PROVE  AloneInv'
  <2>1. saver'[s] = w /\ saver'[Other(s)] = saver[Other(s)]
    BY <1>3, SaverAfter
  <2>2. ~torn' => ~Busy(Other(s)) \/ w.step = "idle"
    BY <1>3, AloneMeans
  <2>3. ~torn' => ~Busy(s)' \/ ~Busy(Other(s))'
    BY <2>1, <2>2, TheOther, TwoScreens DEF Busy, Saver
  <2>4. ~torn' => ~Busy("setup")' \/ ~Busy("settings")'
    BY <2>3, TheOther DEF Busy, Saver
  <2>5. \A x \in Saver :
           /\ saver'[x].step \in {"idle", "asking"} => ~saver'[x].again
           /\ saver'[x].step = "downloading" => saver'[x].again
    BY <1>3, <2>1, TwoScreens DEF AloneInv
  <2> QED BY <2>4, <2>5 DEF AloneInv
<1>4. \A s \in Saver : \A x \in {"asking", "url", "pin", "token"} :
          /\ [saver[s] EXCEPT !.step = x] \in Works
          /\ [saver[s] EXCEPT !.step = x].step = x
          /\ [saver[s] EXCEPT !.step = x].again = saver[s].again
  BY <1>1 DEF Works
<1>5. ASSUME NEW s \in Saver, NEW code \in 1..minted, Scan(s, code) PROVE AloneInv'
  <2>1. saver' = [saver EXCEPT ![s] = [saver[s] EXCEPT !.step = "asking"]]
        /\ torn' = (torn \/ Busy(Other(s))) /\ saver[s].step = "idle"
    BY <1>5 DEF Scan, Overlaps, Busy
  <2>2. ~saver[s].again
    BY <2>1 DEF AloneInv
  <2> QED BY <1>3, <1>4, <2>1, <2>2
<1>6. ASSUME NEW s \in Saver, TakeAnswer(s) PROVE AloneInv'
  <2>1. saver[s].step = "asking" /\ Busy(s) /\ ~saver[s].again
    BY <1>6 DEF TakeAnswer, Busy, AloneInv
  <2>2. CASE call[s].stage = "granted"
    <3> DEFINE w == [saver[s] EXCEPT !.step = "url", !.run = call[s].token]
    <3>1. /\ saver' = [saver EXCEPT ![s] = w]
          /\ torn' = (torn /\ (Busy(Other(s)) \/ call[s].token # good))
      BY <1>6, <2>2 DEF TakeAnswer
    <3>2. call[s].token \in 0..MaxTokens
      BY TypeParts, TwoScreens DEF PhoneTypes, Calls
    <3>3. w \in Works /\ w.step = "url"
      BY <1>1, <3>2 DEF Works
    <3> HIDE DEF w
    <3> QED BY <1>3, <2>1, <3>1, <3>3
  <2>3. CASE call[s].stage # "granted"
    <3>1. saver' = [saver EXCEPT ![s] = Idle] /\ torn' = torn
      BY <1>6, <2>3 DEF TakeAnswer
    <3> QED BY <1>3, <3>1, Records
  <2> QED BY <2>2, <2>3
<1>7. ASSUME NEW s \in Saver, TimeOut(s) PROVE AloneInv'
  <2>1. saver' = [saver EXCEPT ![s] = Idle] /\ torn' = torn
    BY <1>7 DEF TimeOut
  <2> QED BY <1>3, <2>1, Records
<1>8. ASSUME NEW s \in Saver, Discard(s) PROVE AloneInv'
  BY <1>2, <1>8 DEF Discard, phone, past
<1>9. ASSUME NEW s \in Saver, SaveUrl(s) \/ SavePin(s) PROVE AloneInv'
  <2>1. PICK x \in {"pin", "token"} : saver' = [saver EXCEPT ![s] = [saver[s] EXCEPT !.step = x]]
    BY <1>9 DEF SaveUrl, SavePin
  <2>2. torn' = torn /\ Busy(s)
    BY <1>9 DEF SaveUrl, SavePin, past, Busy
  <2> QED BY <1>3, <1>4, <2>1, <2>2
<1>10. ASSUME NEW s \in Saver, SaveToken(s) PROVE AloneInv'
  <2> DEFINE w == [saver[s] EXCEPT !.step = "downloading", !.again = TRUE]
  <2>1. saver' = [saver EXCEPT ![s] = w] \/ saver' = [saver EXCEPT ![s] = Idle]
    BY <1>10 DEF SaveToken
  <2>2. torn' = torn /\ Busy(s)
    BY <1>10 DEF SaveToken, past, Busy
  <2>3. w \in Works /\ w.step = "downloading" /\ w.again
    BY <1>1 DEF Works
  <2> HIDE DEF w
  <2> QED BY <1>3, <2>1, <2>2, <2>3, Records
<1>11. CASE DownloadEnds
  <2>1. \/ saver' = [saver EXCEPT !["setup"] = [saver["setup"] EXCEPT !.step = "url"]]
        \/ saver' = [saver EXCEPT !["setup"] = Idle]
    BY <1>11 DEF DownloadEnds
  <2>2. torn' = torn /\ Busy("setup")
    BY <1>11 DEF DownloadEnds, past, Busy
  <2> QED BY <1>1, <1>3, <1>4, <2>1, <2>2, Records
<1>12. CASE Wipe
  <2>1. /\ saver' = [saver EXCEPT !["settings"] = [saver["settings"] EXCEPT !.step = "url"]]
        /\ torn' = (torn \/ Busy(Other("settings")))
    BY <1>12 DEF Wipe, Overlaps
  <2> QED BY <1>1, <1>3, <1>4, <2>1
<1>13. CASE PhoneDies
  <2>1. \A s \in Saver : saver'[s] = Idle
    BY <1>13 DEF PhoneDies
  <2> QED BY <1>1, <2>1, Records DEF AloneInv, Busy
<1> QED
  BY <1>2, <1>5, <1>6, <1>7, <1>8, <1>9, <1>10, <1>11, <1>12, <1>13, Touches DEF Screens

(* The phone's disk and screens are as they were.                          *)
LEMMA FilesUntouched ==
    ASSUME FilesInv, UNCHANGED <<saver, url, pin, token, torn, good>>,
           \A s \in Saver : /\ Coming(s)' <=> Coming(s)
                            /\ Coming(s) => call'[s].token = call[s].token
    PROVE  FilesInv'
BY DEF FilesInv, Saving, Whole, Coming

(* What the PC does of a request leaves the phone alone until it answers.  *)
LEMMA EndpointFiles ==
    ASSUME TypeOK, AloneInv, FilesInv, Endpoint \/ HostRestarts
    PROVE  FilesInv'
<1>1. /\ call \in [Client -> Calls] /\ Saver \subseteq Client /\ "other" \in Client
      /\ "other" \notin Saver
  BY TypeParts DEF PhoneTypes, Client, Saver
<1>2. UNCHANGED <<saver, url, pin, token, torn>>
  BY DEF Endpoint, HostRestarts, Admit, RedeemNone, RedeemWrong, RedeemRight,
         RedeemUnwritten, DiesGranting, phone, past
<1>3. CASE good' = 0
  BY <1>3 DEF FilesInv
<1>4. ASSUME NEW c \in Client, Admit(c) \/ RedeemNone(c) \/ RedeemWrong(c) PROVE FilesInv'
  <2>1. good' = good /\ call[c].stage # "granted"
    BY <1>4 DEF Admit, RedeemNone, RedeemWrong, past
  <2>2. /\ \A d \in Client : d # c => call'[d] = call[d]
        /\ call'[c].stage # "granted"
    <3>1. [call[c] EXCEPT !.stage = "admitted"].stage # "granted"
      BY <1>1 DEF Calls
    <3> QED BY <1>1, <1>4, <3>1, RefusalTypes DEF Admit, RedeemNone, RedeemWrong
  <2> QED BY <1>1, <1>2, <2>1, <2>2, FilesUntouched DEF Coming
<1>5. ASSUME NEW c \in Client, RedeemUnwritten(c) PROVE FilesInv'
  <2>1. /\ good' = good \/ good' = 0
        /\ call[c].stage # "granted"
    BY <1>5 DEF RedeemUnwritten, Right, GoodAfter
  <2>2. /\ \A d \in Client : d # c => call'[d] = call[d]
        /\ call'[c].stage # "granted"
    BY <1>1, <1>5, RefusalTypes DEF RedeemUnwritten
  <2> QED BY <1>1, <1>2, <1>3, <2>1, <2>2, FilesUntouched DEF Coming
<1>6. ASSUME call' = Refused, good' = 0 \/ good' = GoodAfterCrash PROVE FilesInv'
  <2>1. CASE \E s \in Saver : call[s].stage = "granted"
    BY <1>3, <1>6, <2>1 DEF GoodAfterCrash
  <2>2. CASE \A s \in Saver : call[s].stage # "granted"
    <3>1. good' = 0 \/ good' = good
      BY <1>6, <2>2 DEF GoodAfterCrash
    <3>2. \A s \in Saver : call'[s].stage # "granted"
      BY <1>1, <1>6, RefusalTypes
    <3> QED BY <1>2, <1>3, <2>2, <3>1, <3>2, FilesUntouched DEF Coming
  <2> QED BY <2>1, <2>2
<1>7. CASE HostRestarts
  BY <1>6, <1>7 DEF HostRestarts
<1>8. ASSUME NEW c \in Client, DiesGranting(c) PROVE FilesInv'
  BY <1>6, <1>8 DEF DiesGranting
<1>9. ASSUME NEW c \in Client, RedeemRight(c) PROVE FilesInv'
  <2>1. /\ Right(c) /\ call' = [call EXCEPT ![c] = Reply(c, "granted", issued')]
        /\ good' = GoodAfter(c, IF Waits(c) THEN issued' ELSE 0)
    BY <1>9 DEF RedeemRight
  <2>2. CASE c = "other"
    <3>1. good' = good /\ \A s \in Saver : call'[s] = call[s]
      BY <1>1, <2>1, <2>2 DEF GoodAfter, DeviceOf
    <3> QED BY <1>2, <3>1, FilesUntouched DEF Coming
  <2>3. CASE c # "other" /\ ~Waits(c)
    BY <1>3, <2>1, <2>3 DEF GoodAfter, DeviceOf
  <2>4. CASE c # "other" /\ Waits(c)
    <3>1. /\ c \in Saver /\ saver[c].step = "asking" /\ good' = issued'
      BY <2>1, <2>4 DEF GoodAfter, DeviceOf, Waits
    <3>2. call'[c].stage = "granted" /\ call'[c].token = good'
      BY <1>1, <2>1, <3>1, RightTypes, ReplyTypes
    <3>3. Coming(c)'
      BY <1>2, <3>1, <3>2 DEF Coming
    <3>4. ASSUME ~torn PROVE saver[Other(c)].step = "idle"
      BY <3>1, <3>4, AloneMeans DEF Busy
    <3>5. ASSUME ~torn', NEW s \in Saver
          PROVE  /\ Coming(s)' => call'[s].token = good'
                 /\ ~Saving(s)' /\ saver'[s].step \notin {"downloading", "pin", "token"}
      BY <1>2, <3>1, <3>2, <3>4, <3>5, TwoScreens DEF Coming, Saving
    <3> QED BY <3>1, <3>3, <3>5 DEF FilesInv
  <2> QED BY <2>2, <2>3, <2>4
<1> QED BY <1>4, <1>5, <1>7, <1>8, <1>9 DEF Endpoint

(* The same for a screen that works alone.                                 *)
FilesOf(s) ==
    /\ Coming(s) => call[s].token = good
    /\ Saving(s) \/ saver[s].step = "downloading" => saver[s].run = good
    /\ saver[s].step \in {"pin", "token"} => url = good
    /\ saver[s].step = "token" => pin = good
    /\ ~Coming(s) /\ (Saving(s) => saver[s].again) => Whole

LEMMA AloneBefore ==
    ASSUME FilesInv, good # 0, ~torn, NEW s \in Saver, ~Busy(Other(s))
    PROVE  FilesOf(s)
BY TwoScreens DEF FilesInv, FilesOf, Busy, Coming, Saving

LEMMA AloneAfter ==
    ASSUME NEW s \in Saver, good' # 0 /\ ~torn' => ~Busy(Other(s))' /\ FilesOf(s)'
    PROVE  FilesInv'
<1> SUFFICES ASSUME good' # 0, ~torn'
             PROVE  /\ \A x \in Saver :
                           /\ Coming(x)' => call'[x].token = good'
                           /\ Saving(x)' \/ saver'[x].step = "downloading" =>
                                  saver'[x].run = good'
                           /\ saver'[x].step \in {"pin", "token"} => url' = good'
                           /\ saver'[x].step = "token" => pin' = good'
                    /\ (\A x \in Saver : ~Coming(x)' /\ (Saving(x)' => saver'[x].again))
                           => Whole'
  BY DEF FilesInv
<1>1. saver'[Other(s)].step = "idle" /\ FilesOf(s)'
  BY DEF Busy
<1> QED BY <1>1, TwoScreens DEF FilesOf, Coming, Saving

LEMMA ScreenFiles ==
    ASSUME TypeOK, AloneInv, FilesInv, Screens \/ DownloadEnds \/ Wipe \/ PhoneDies
    PROVE  FilesInv'
<1>1. /\ call \in [Client -> Calls] /\ saver \in [Saver -> Works]
      /\ "setup" \in Saver /\ "settings" \in Saver
  BY TypeParts DEF PhoneTypes, Saver
(* A screen that goes on alone, or that did so before.                     *)
<1>2. ASSUME NEW s \in Saver, NEW w, saver' = [saver EXCEPT ![s] = w], Busy(s),
             good' = good, torn' = torn, good # 0, ~torn
      PROVE  FilesOf(s) /\ ~Busy(Other(s))' /\ saver'[s] = w
  <2>1. ~Busy(Other(s))
    BY <1>2, AloneMeans
  <2>2. saver'[s] = w /\ saver'[Other(s)] = saver[Other(s)]
    BY <1>2, SaverAfter
  <2> QED BY <1>2, <2>1, <2>2, AloneBefore DEF Busy
<1>3. ASSUME NEW s \in Saver, NEW code \in 1..minted, Scan(s, code) PROVE FilesInv'
  <2> DEFINE w == [saver[s] EXCEPT !.step = "asking"]
  <2>1. /\ ~Busy(s) /\ saver' = [saver EXCEPT ![s] = w] /\ torn' = (torn \/ Busy(Other(s)))
        /\ call' = [call EXCEPT ![s] = [NoCall EXCEPT !.stage = "sent", !.code = code]]
        /\ UNCHANGED <<url, pin, token, good>>
    BY <1>3 DEF Scan, Overlaps
  <2>2. w.step = "asking"
    BY <1>1 DEF Works
  <2> HIDE DEF w
  <2>3. saver'[s] = w /\ saver'[Other(s)] = saver[Other(s)]
    BY <2>1, SaverAfter
  <2>4. call'[s].stage = "sent"
    BY <1>1, <2>1, TwoScreens DEF NoCall
  <2>5. ASSUME good' # 0, ~torn' PROVE ~Busy(Other(s))' /\ FilesOf(s)'
    <3>1. ~torn /\ ~Busy(Other(s)) /\ good # 0
      BY <2>1, <2>5
    <3>2. Whole
      BY <2>1, <3>1, AloneBefore DEF FilesOf, Busy, Coming, Saving
    <3>3. Whole'
      BY <2>1, <3>2 DEF Whole
    <3> QED BY <2>2, <2>3, <2>4, <3>1, <3>3 DEF Busy, FilesOf, Coming, Saving
  <2> QED BY <2>5, AloneAfter
<1>4. ASSUME NEW s \in Saver, TakeAnswer(s) PROVE FilesInv'
  <2>1. /\ saver[s].step = "asking" /\ Busy(s) /\ ~saver[s].again
        /\ UNCHANGED <<url, pin, token, good>>
    BY <1>4 DEF TakeAnswer, Busy, AloneInv
  <2>2. CASE call[s].stage = "granted"
    <3> DEFINE w == [saver[s] EXCEPT !.step = "url", !.run = call[s].token]
    <3>1. /\ saver' = [saver EXCEPT ![s] = w]
          /\ torn' = (torn /\ (Busy(Other(s)) \/ call[s].token # good))
      BY <1>4, <2>2 DEF TakeAnswer
    <3>2. w.step = "url" /\ w.run = call[s].token /\ w.again = saver[s].again
      BY <1>1 DEF Works
    <3> HIDE DEF w
    <3>3. saver'[s] = w /\ saver'[Other(s)] = saver[Other(s)]
      BY <3>1, SaverAfter
    <3>4. ASSUME good' # 0, ~torn' PROVE ~Busy(Other(s))' /\ FilesOf(s)'
      <4>1. ~Busy(Other(s))
        BY <2>1, <3>1, <3>4, AloneMeans
      <4>2. call[s].token = good
        <5>1. CASE torn
          BY <3>1, <3>4, <5>1
        <5>2. CASE ~torn
          BY <2>1, <2>2, <3>4, <4>1, <5>2, AloneBefore DEF FilesOf, Coming
        <5> QED BY <5>1, <5>2
      <4> QED BY <2>1, <3>2, <3>3, <4>1, <4>2 DEF Busy, FilesOf, Coming, Saving
    <3> QED BY <3>4, AloneAfter
  <2>3. CASE call[s].stage # "granted"
    <3>1. saver' = [saver EXCEPT ![s] = Idle] /\ torn' = torn
      BY <1>4, <2>3 DEF TakeAnswer
    <3>2. ASSUME good' # 0, ~torn' PROVE ~Busy(Other(s))' /\ FilesOf(s)'
      <4>1. FilesOf(s) /\ ~Busy(Other(s))' /\ saver'[s] = Idle
        BY <1>2, <2>1, <3>1, <3>2
      <4>2. Whole'
        BY <2>1, <2>3, <4>1 DEF FilesOf, Coming, Saving, Whole
      <4> QED BY <4>1, <4>2, Records DEF FilesOf, Coming, Saving
    <3> QED BY <3>2, AloneAfter
  <2> QED BY <2>2, <2>3
<1>5. ASSUME NEW s \in Saver, TimeOut(s) PROVE FilesInv'
  <2>1. /\ saver' = [saver EXCEPT ![s] = Idle] /\ UNCHANGED <<url, pin, token, torn>>
        /\ good' = (IF call[s].stage = "granted" THEN 0 ELSE good)
        /\ Busy(s) /\ saver[s].step = "asking"
    BY <1>5 DEF TimeOut, Busy
  <2>2. ASSUME good' # 0, ~torn' PROVE ~Busy(Other(s))' /\ FilesOf(s)'
    <3>1. call[s].stage # "granted" /\ good' = good
      BY <2>1, <2>2
    <3>2. FilesOf(s) /\ ~Busy(Other(s))' /\ saver'[s] = Idle
      BY <1>2, <2>1, <2>2, <3>1
    <3>3. Whole'
      BY <2>1, <3>1, <3>2 DEF FilesOf, Coming, Saving, Whole
    <3> QED BY <3>2, <3>3, Records DEF FilesOf, Coming, Saving
  <2> QED BY <2>2, AloneAfter
<1>6. ASSUME NEW s \in Saver, Discard(s) PROVE FilesInv'
  <2>1. /\ saver[s].step = "idle" /\ call' = [call EXCEPT ![s] = NoCall]
        /\ UNCHANGED <<saver, url, pin, token, torn, good>>
    BY <1>6 DEF Discard, Busy, phone, past
  <2>2. \A x \in Saver : x # s => call'[x] = call[x]
    BY <1>1, <2>1, TwoScreens
  <2> QED BY <2>1, <2>2, FilesUntouched DEF Coming
<1>7. ASSUME NEW s \in Saver, SaveUrl(s) PROVE FilesInv'
  <2> DEFINE w == [saver[s] EXCEPT !.step = "pin"]
  <2>1. /\ saver[s].step = "url" /\ saver' = [saver EXCEPT ![s] = w] /\ url' = saver[s].run
        /\ UNCHANGED <<call, pin, token, torn, good>> /\ Busy(s)
    BY <1>7 DEF SaveUrl, past, Busy
  <2>2. w.step = "pin" /\ w.run = saver[s].run /\ w.again = saver[s].again
    BY <1>1 DEF Works
  <2> HIDE DEF w
  <2>3. ASSUME good' # 0, ~torn' PROVE ~Busy(Other(s))' /\ FilesOf(s)'
    <3>1. FilesOf(s) /\ ~Busy(Other(s))' /\ saver'[s] = w
      BY <1>2, <2>1, <2>3
    <3> QED BY <2>1, <2>2, <3>1 DEF FilesOf, Coming, Saving, Whole
  <2> QED BY <2>3, AloneAfter
<1>8. ASSUME NEW s \in Saver, SavePin(s) PROVE FilesInv'
  <2> DEFINE w == [saver[s] EXCEPT !.step = "token"]
  <2>1. /\ saver[s].step = "pin" /\ saver' = [saver EXCEPT ![s] = w] /\ pin' = saver[s].run
        /\ UNCHANGED <<call, url, token, torn, good>> /\ Busy(s)
    BY <1>8 DEF SavePin, past, Busy
  <2>2. w.step = "token" /\ w.run = saver[s].run /\ w.again = saver[s].again
    BY <1>1 DEF Works
  <2> HIDE DEF w
  <2>3. ASSUME good' # 0, ~torn' PROVE ~Busy(Other(s))' /\ FilesOf(s)'
    <3>1. FilesOf(s) /\ ~Busy(Other(s))' /\ saver'[s] = w
      BY <1>2, <2>1, <2>3
    <3> QED BY <2>1, <2>2, <3>1 DEF FilesOf, Coming, Saving, Whole
  <2> QED BY <2>3, AloneAfter
<1>9. ASSUME NEW s \in Saver, SaveToken(s) PROVE FilesInv'
  <2> DEFINE v == [saver[s] EXCEPT !.step = "downloading", !.again = TRUE]
             w == IF s = "setup" /\ ~saver[s].again THEN v ELSE Idle
  <2>1. /\ saver[s].step = "token" /\ saver' = [saver EXCEPT ![s] = w] /\ token' = saver[s].run
        /\ UNCHANGED <<call, url, pin, torn, good>> /\ Busy(s)
    BY <1>9 DEF SaveToken, past, Busy
  <2>2. v.step = "downloading" /\ v.run = saver[s].run
    BY <1>1 DEF Works
  <2>3. w.step = "idle" \/ (w.step = "downloading" /\ w.run = saver[s].run)
    BY <2>2, Records
  <2> HIDE DEF v, w
  <2>4. ASSUME good' # 0, ~torn' PROVE ~Busy(Other(s))' /\ FilesOf(s)'
    <3>1. FilesOf(s) /\ ~Busy(Other(s))' /\ saver'[s] = w
      BY <1>2, <2>1, <2>4
    <3> QED BY <2>1, <2>3, <3>1 DEF FilesOf, Coming, Saving, Whole
  <2> QED BY <2>4, AloneAfter
<1>10. CASE DownloadEnds
  <2> DEFINE s == "setup"
             v == [saver[s] EXCEPT !.step = "url"]
  <2>1. PICK w \in {v, Idle} : saver' = [saver EXCEPT ![s] = w]
    BY <1>10 DEF DownloadEnds
  <2>2. /\ saver[s].step = "downloading" /\ saver[s].again
        /\ UNCHANGED <<call, url, pin, token, torn, good>> /\ Busy(s)
    BY <1>1, <1>10 DEF DownloadEnds, past, Busy, AloneInv
  <2>3. v.step = "url" /\ v.run = saver[s].run /\ v.again = saver[s].again
    BY <1>1 DEF Works
  <2>4. w.step = "idle" \/ (w.step = "url" /\ w.run = saver[s].run /\ w.again)
    BY <2>1, <2>2, <2>3, Records
  <2>5. s \in Saver
    BY <1>1
  <2> HIDE DEF s, v
  <2>6. ASSUME good' # 0, ~torn' PROVE ~Busy(Other(s))' /\ FilesOf(s)'
    <3>1. FilesOf(s) /\ ~Busy(Other(s))' /\ saver'[s] = w
      BY <1>2, <2>1, <2>2, <2>5, <2>6
    <3> QED BY <2>2, <2>4, <3>1 DEF FilesOf, Coming, Saving, Whole
  <2> QED BY <2>5, <2>6, AloneAfter
<1>11. CASE Wipe
  BY <1>11 DEF Wipe, FilesInv
<1>12. CASE PhoneDies
  <2>1. /\ saver' = [s \in Saver |-> Idle] /\ UNCHANGED <<url, pin, token, torn>>
        /\ good' = (IF \E s \in Saver : Unsaved(s) THEN 0 ELSE good)
    BY <1>12 DEF PhoneDies
  <2>2. ASSUME good' # 0, ~torn' PROVE Whole'
    <3>1. good' = good /\ \A s \in Saver : ~Unsaved(s)
      BY <2>1, <2>2
    <3>2. \A s \in Saver : ~Coming(s) /\ (Saving(s) => saver[s].again)
      BY <3>1 DEF Unsaved, Coming, Saving
    <3> QED BY <2>1, <2>2, <3>1, <3>2 DEF FilesInv, Whole
  <2>3. \A s \in Saver : saver'[s].step = "idle"
    BY <2>1, Records
  <2> QED BY <2>2, <2>3 DEF FilesInv, Coming, Saving
<1> QED
  BY <1>3, <1>4, <1>5, <1>6, <1>7, <1>8, <1>9, <1>10, <1>11, <1>12 DEF Screens

LEMMA FilesStep ==
    ASSUME TypeOK, AloneInv, FilesInv, [Next]_vars
    PROVE  FilesInv'
<1>1. CASE UNCHANGED vars \/ Dashboard
  <2>1. UNCHANGED <<saver, url, pin, token, torn, call>> /\ (good' = good \/ good' = 0)
    BY <1>1
    DEF vars, phone, past, Dashboard, Mint, MintFails, CancelPairing, Expire, Refresh,
        SetEnabled, Unpair
  <2>2. CASE good' = 0
    BY <2>2 DEF FilesInv
  <2> QED BY <2>1, <2>2, FilesUntouched DEF Coming
<1>2. CASE \E code \in 0..minted : Ask(code)
  <2>1. UNCHANGED <<saver, url, pin, token, torn, good>>
        /\ \A s \in Saver : call'[s] = call[s]
    BY <1>2, TypeParts, TwoScreens DEF Ask, phone, past, PhoneTypes
  <2> QED BY <2>1, FilesUntouched DEF Coming
<1> QED BY <1>1, <1>2, EndpointFiles, ScreenFiles DEF Next

-----------------------------------------------------------------------------
(* The invariant, and what follows from it.                                *)

LEMMA PairStart == Init => PairInv
<1> SUFFICES ASSUME Init PROVE PairInv
  OBVIOUS
<1> USE DEF Init
<1>1. CodeInv
  BY DEF CodeInv, OneTokenPerCode
<1>2. TokenInv
  BY DEF TokenInv, Holds, RevokedStaysOut, Device
<1>3. HostInv /\ FilesInv
  BY DEF HostInv, FilesInv
<1>4. AloneInv
  BY Records DEF AloneInv, Busy, Saver
<1> QED BY <1>1, <1>2, <1>3, <1>4, TypeStart DEF PairInv

LEMMA PairStep == PairInv /\ [Next]_vars => PairInv'
<1> SUFFICES ASSUME PairInv, [Next]_vars PROVE PairInv'
  OBVIOUS
<1> USE DEF PairInv
<1>1. TypeOK' /\ CodeInv' /\ TokenInv'
  BY TypeStep, CodeStep, TokenStep
<1>2. HostInv' /\ AloneInv' /\ FilesInv'
  BY HostStep, AloneStep, FilesStep
<1> QED BY <1>1, <1>2

THEOREM PairingCorrect == Spec => []PairInv
BY PairStart, PairStep, PTL DEF Spec

(* Every variable keeps its type.                                          *)
THEOREM TypeCorrect == Spec => []TypeOK
<1>1. PairInv => TypeOK
  BY DEF PairInv
<1> QED BY <1>1, PairingCorrect, PTL

(* A token whose end is on disk is never accepted again.                   *)
THEOREM RevokedForGood == Spec => []RevokedStaysOut
<1>1. PairInv => RevokedStaysOut
  BY DEF PairInv, TokenInv
<1> QED BY <1>1, PairingCorrect, PTL

(* A code buys at most one token, however many requests race for it.       *)
THEOREM OneTokenOnly == Spec => []OneTokenPerCode
<1>1. PairInv => OneTokenPerCode
  BY DEF PairInv, CodeInv
<1> QED BY <1>1, PairingCorrect, PTL

(* No token is handed out for a code that has ended, not even to a request *)
(* that was let in before.                                                 *)
THEOREM OnlyWhileOffered == Spec => GrantedWhileOffered
<1>1. PairInv /\ [Next]_vars =>
          [\A c \in Code : granted'[c] # granted[c] => c \notin ended]_vars
  BY GrantStep DEF PairInv
<1> QED BY <1>1, PairingCorrect, PTL DEF Spec, GrantedWhileOffered

(* A phone that was given a token has it whole, and the PC knows it.       *)
THEOREM PairedForBoth == Spec => []PairedBothWays
<1>1. PairInv => PairedBothWays
  <2> SUFFICES ASSUME PairInv, good # 0, ~torn,
                      \A s \in Saver : saver[s].step \in {"idle", "downloading"}
               PROVE  /\ {url, pin, token} = {good}
                      /\ memory["own"] = good /\ disk["own"] = good
    BY DEF PairedBothWays
  <2>1. \A s \in Saver : ~Coming(s) /\ ~Saving(s)
    BY DEF Coming, Saving
  <2>2. Whole
    BY <2>1 DEF PairInv, FilesInv
  <2> QED BY <2>2 DEF PairInv, HostInv, Whole
<1> QED BY <1>1, PairingCorrect, PTL
=============================================================================
