--------------------------- MODULE MCBrowserSession ---------------------------
(* Small instances of BrowserSession for TLC: two overlapping requests of  *)
(* one tab on two token pairs, one request at a time on three pairs, and   *)
(* one request at a time of two tabs.  Each behaviour picks one of them.   *)
EXTENDS BrowserSession, TLC

VARIABLE room    \* [slots, tokens, tabs, kinds] that this behaviour may use

OneTab == CHOOSE b \in Tabs : TRUE
OneSlot == CHOOSE s \in Slots : TRUE

Rooms == {[slots |-> Slots, tokens |-> 2, tabs |-> {OneTab},
           kinds |-> {"api", "me", "login", "logout", "password"}],
          [slots |-> {OneSlot}, tokens |-> 3, tabs |-> {OneTab}, kinds |-> Kinds],
          [slots |-> {OneSlot}, tokens |-> 2, tabs |-> Tabs, kinds |-> Kinds]}

Fits ==
  /\ \A t \in Tokens : Committed(t) => t <= room.tokens
  /\ \A s \in Slots :
       Busy(s) => s \in room.slots /\ calls[s].tab \in room.tabs /\ calls[s].kind \in room.kinds

MCInit == Init /\ room \in Rooms
MCNext == Next /\ UNCHANGED room /\ Fits'
MCSpec == MCInit /\ [][MCNext]_<<vars, room>>
=============================================================================
