---------------------------- MODULE NetplanChange ----------------------------
(***************************************************************************)
(* Changing the Wi-Fi network over GATT (netplan_manager.cpp, the write    *)
(* callbacks in service_node.cpp).  A change rewrites the Netplan file,    *)
(* applies it, waits until the network is joined, and otherwise puts the   *)
(* old file back.  The manager's lock is held throughout, so a change is   *)
(* one function of the file and of what goes wrong.                        *)
(*                                                                         *)
(* A file is what it says of wlan0: is "wlan", "null" (named without       *)
(* settings), "absent" (no file), or "other" (nothing the manager reads:   *)
(* no YAML, or no wlan0 where one is looked for); its access points in     *)
(* order, and its address.  Names and passwords are words, trimmed.        *)
(***************************************************************************)
EXTENDS Integers, Sequences

Point(ssid, password) == [ssid |-> ssid, password |-> password]
File(is, points, address) == [is |-> is, points |-> points, address |-> address]
Absent == File("absent", <<>>, "")
Torn == File("other", <<>>, "")       \* Truncated, and not written

\* The first access point counts; a file that is not read has none.
ReadSsid(f) == IF f.points = <<>> THEN "" ELSE f.points[1].ssid
ReadPassword(f) == IF f.points = <<>> THEN "" ELSE f.points[1].password

\* get_current_ssid: the configured network before the joined one.
CurrentSsid(f, joined) == IF ReadSsid(f) # "" THEN ReadSsid(f) ELSE joined

\* default_uav_static_address: the host part, from the last two digits of the number.
DefaultHostPart(number) == 100 + (IF number < 0 THEN 0 ELSE number % 100)

\* The new file has one access point.  Without a password it keeps the old one, though
\* that may be another network's.  Only a wlan0 without settings gets the address of the
\* UAV: a missing file is begun with an empty wlan0, which counts as settings.
Rewritten(f, ssid, password) ==
    File("wlan", <<Point(ssid, IF password # "" THEN password ELSE ReadPassword(f))>>,
         IF f.is = "null" THEN "default" ELSE f.address)

\* What may happen: the write of the file ("ok", "refused" before anything is changed,
\* "torn", or torn "unnoticed": a short text is written when the stream is closed, after
\* its state was looked at), netplan apply, the network joined within 20 s, and the write
\* of the old file.
Events == [write : {"ok", "refused", "torn", "unnoticed"}, apply : BOOLEAN, join : BOOLEAN,
           back : {"ok", "refused", "torn"}]

Written(how, old, new) == CASE how = "ok" -> new [] how = "refused" -> old [] OTHER -> Torn

\* A snapshot of no file is put back by removing the file.
Rollback(old, new, how) ==
    IF old = Absent THEN IF how = "ok" THEN Absent ELSE new ELSE Written(how, new, old)

Outcome(ok, file) == [ok |-> ok, file |-> file]

\* write_netplan: a file that is not understood is left alone; a failed write is not
\* taken back.
WriteNetplan(f, ssid, password, e) ==
    LET new == Rewritten(f, ssid, password)
        applied == Written(e.write, f, new) IN
    IF f.is = "other" THEN Outcome(FALSE, f)
    ELSE IF e.write \in {"refused", "torn"} THEN Outcome(FALSE, applied)
    ELSE IF e.apply /\ e.join THEN Outcome(TRUE, applied)
    ELSE Outcome(FALSE, Rollback(f, applied, e.back))

\* An empty list of allowed networks allows all.
SetCurrentNetwork(f, ssid, password, allowed, e) ==
    IF ssid = "" \/ (allowed # {} /\ ssid \notin allowed) THEN Outcome(FALSE, f)
    ELSE WriteNetplan(f, ssid, password, e)

\* The writable characteristics of the Wi-Fi service.
WriteSsid(f, ssid, allowed, e) == SetCurrentNetwork(f, ssid, "", allowed, e)
WritePassword(f, password, joined, allowed, e) ==
    LET ssid == CurrentSsid(f, joined) IN
    IF password = "" \/ ssid \in {"", "unknown"} THEN Outcome(FALSE, f)
    ELSE SetCurrentNetwork(f, ssid, password, allowed, e)

=============================================================================
