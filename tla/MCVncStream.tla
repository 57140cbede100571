----------------------------- MODULE MCVncStream -----------------------------
(***************************************************************************)
(* Servers for VncStream: every handshake once, and every message and      *)
(* encoding after the shortest one, with real sizes, each followed by a    *)
(* message that would be misread if the first were.                        *)
(***************************************************************************)
EXTENDS VncStream

V == [kind |-> "version"]
Offer(n) == [kind |-> "security", old |-> FALSE, n |-> n]
OldSecurity == [kind |-> "security", old |-> TRUE, n |-> 0]
Msg(k) == [kind |-> k]
MsgN(k, n) == [kind |-> k, n |-> n]
ServerInit(n, caps) == [kind |-> "serverInit", n |-> n, caps |-> caps]
ReadyThen == <<Msg("result"), ServerInit(3, -1), Msg("bell")>>

Handshakes == {
  <<V, Offer(2)>> \o ReadyThen,
  <<V, Offer(0), MsgN("reason", 5)>>,
  <<V, Offer(1), Msg("vncauth")>> \o ReadyThen,
  <<V, Offer(1), Msg("vncauth"), Msg("result"), MsgN("reason", 0)>>,
  <<V, Offer(1), Msg("mslogon")>> \o ReadyThen,
  <<V, Offer(1), MsgN("ard", 8)>> \o ReadyThen,
  <<V, Offer(1), Msg("vencrypt"), MsgN("subtypes", 2), Msg("plain")>> \o ReadyThen,
  <<V, Offer(1), Msg("plain"), Msg("vncauth")>> \o ReadyThen,
  <<V, Offer(1), MsgN("tunnels", 1), MsgN("subauths", 1), Msg("vncauth"), Msg("result"),
    ServerInit(3, 2), Msg("bell")>>,
  <<V, Offer(1), MsgN("tunnels", 0), MsgN("subauths", 0), Msg("result"), ServerInit(0, 0),
    Msg("bell")>>}

CutText(action, n) == [kind |-> "cutText", action |-> action, n |-> n, formats |-> 2, text |-> TRUE]
Messages == {
  <<CutText("text", 5), CutText("caps", 12), CutText("request", 4)>>,
  <<CutText("notify", 4), CutText("provide", 9)>>,
  <<MsgN("fence", 3), Msg("endOfContinuousUpdates"), MsgN("fence", 64), Msg("xvp")>>}

Rect(e) == [enc |-> e, n |-> 0]
RectN(e, n) == [enc |-> e, n |-> n]
Area(e, w, h) == [enc |-> e, w |-> w, h |-> h, alpha |-> FALSE]
Tile(raw, colours, subs, size) == [raw |-> raw, colours |-> colours, subs |-> subs, size |-> size]
Tight(ctl, n) == [enc |-> "tight", ctl |-> ctl, n |-> n]
Basic(filter, colours, w, h, n) ==
  [enc |-> "tight", ctl |-> "basic", n |-> n, colours |-> colours, filter |-> filter,
   w |-> w, h |-> h]
Seg(n, scan) == [n |-> n, scan |-> scan]
Jpeg == [enc |-> "jpeg", segs |-> <<Seg(0, -1), Seg(5, -1), Seg(4, 6)>>]
FBU(rects) == [kind |-> "fbu", rects |-> rects]

Updates == {
  <<FBU(<<Area("raw", 2, 2), Rect("copyRect")>>), FBU(<<>>)>>,
  <<FBU(<<RectN("rre", 2), RectN("rre", 0)>>)>>,
  <<FBU(<<RectN("zlib", 5), RectN("zrle", 3), Rect("lastRect")>>)>>,
  <<FBU(<<[enc |-> "hextile", tiles |-> <<Tile(3, 0, -1, 0), Tile(0, 4, -1, 0), Tile(0, 4, 2, 6),
                                          Tile(0, 8, 1, 2), Tile(0, 0, -1, 0)>>]>>)>>,
  <<FBU(<<Basic("implicit", 0, 1, 3, 0), Basic("gradient", 0, 2, 2, 7), Tight("fill", 0)>>)>>,
  <<FBU(<<Basic("palette", 2, 9, 2, 0), Basic("palette", 3, 4, 4, 6), Basic("copy", 0, 0, 5, 0)>>)>>,
  <<FBU(<<Tight("jpeg", 130)>>), FBU(<<[Tight("png", 4) EXCEPT !.enc = "tightPNG"]>>)>>,
  <<FBU(<<Jpeg>>), FBU(<<RectN("h264", 6)>>), FBU(<<Rect("copyRect")>>)>>,
  <<FBU(<<Area("cursor", 2, 1), Area("vmwareCursor", 1, 1)>>)>>,
  <<FBU(<<[Area("vmwareCursor", 1, 2) EXCEPT !.alpha = TRUE], RectN("desktopName", 3), Rect("led")>>)>>,
  <<FBU(<<RectN("extendedDesktopSize", 2), Rect("desktopSize"), RectN("extendedDesktopSize", 0)>>)>>}

MCScripts ==
  Handshakes \cup {<<V, OldSecurity, ServerInit(2, -1)>> \o ms \o <<Msg("bell")>> :
                     ms \in Messages \cup Updates}
=============================================================================
