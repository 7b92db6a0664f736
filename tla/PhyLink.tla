------------------------------ MODULE PhyLink ------------------------------
(***************************************************************************)
(* The state of a network link: the PHY manager that polls the PHY's       *)
(* registers (os/src/net/bt_phy.c), the Ethernet MAC that follows the      *)
(* negotiated mode (mac_adjust_link in arch/arm/mach/zynq/gem.c), the      *)
(* network interface that is taken up and down (os/src/net/bt_net.c), and  *)
(* the application's calls: BT_NetifConfigureLink, BT_NetifRestartLink,    *)
(* BT_StartNetif and BT_StopNetif.  The PHY is driven by                   *)
(* drivers/net/phy/marvell.c, the only driver there is.                    *)
(*                                                                         *)
(* phy_task makes one step for each group of register accesses, and one    *)
(* for each access to phy->eState and phy->advertising_mask, as other      *)
(* threads write these too and PHY_LOCK is empty.  The PHY itself          *)
(* negotiates the best mode that both ends advertise.                      *)
(***************************************************************************)
EXTENDS Naturals, FiniteSets

CONSTANTS Supported,        \* modes of the PHY
          Partners,         \* what partners advertise; {} is an unplugged cable
          Masks,            \* values of advertising_disable
          CableChanges, Calls       \* bounds on what the cable and the application do

Mode == {10, 100, 1000} \X {"half", "full"}
NoLink == <<0, "half">>
Gigabit == {m \in Mode : m[1] = 1000}

ASSUME Modes == Supported \subseteq Mode /\ Partners \subseteq SUBSET Mode
                /\ Masks \subseteq SUBSET Mode
ASSUME LinkBounds == CableChanges \in Nat /\ Calls \in Nat

VARIABLES partner, linkMode,    \* the other end, and the mode in use (hardware)
          ctrl1000,             \* gigabit modes the PHY advertises (a register)
          changes, calls,       \* how often the bounded actions happened
          eState, link, mode,   \* phy->eState, link, and speed with duplex
          advertising, advertising_mask,
          val,                  \* bt_phy_generic_init: the register it will write
          active_mac, netifPhy, \* phy->active_mac and netif->phy are set
          connect,              \* where BT_ConnectPHY is
          step, todo,           \* where phy_task is; the eState it will set
          macMode, macLink,     \* hMac->speed with duplex, hMac->link
          netifUp,              \* the interface is up in the stack
          sure,                 \* masked since before the last phy_init began
          flapped,              \* the link went and came while phy->link said 1
          manual,               \* Start- or StopNetif came after the last report
          restarted,            \* renegotiation began with the interface reported up
          unheard               \* netif->phy was not set yet when the link changed

hw == <<partner, linkMode, changes>>
phy == <<link, mode, advertising, val>>
mac == <<macMode, macLink>>
netif == <<netifUp, manual>>
app == <<active_mac, netifPhy, connect, calls, advertising_mask>>
ghosts == <<sure, flapped, restarted, unheard>>
linkVars == <<hw, ctrl1000, eState, phy, step, todo, mac, netif, app, ghosts>>

Gigabits == Supported \cap Gigabit

\* BT_RegisterMiiBus: the structure is zeroed and phy_init has run.
LinkInit == /\ partner \in Partners
            /\ linkMode = NoLink /\ changes = 0 /\ calls = 0
            /\ ctrl1000 = Gigabits /\ val = {}
            /\ eState = "DOWN" /\ link = FALSE /\ mode = NoLink
            /\ advertising = Supported /\ advertising_mask = {}
            /\ active_mac = FALSE /\ netifPhy = FALSE /\ connect = "mac"
            /\ step = "sleep" /\ todo = "DOWN"
            /\ macMode = NoLink /\ macLink = FALSE /\ netifUp = FALSE
            /\ sure = {} /\ flapped = FALSE /\ manual = FALSE
            /\ restarted = FALSE /\ unheard = FALSE

-----------------------------------------------------------------------------
(* The hardware.                                                           *)

\* What the PHY advertises: nothing masks the register of the 10 and 100 modes.
Advertised == (Supported \ Gigabit) \cup ctrl1000

Better(m, n) == m[1] > n[1] \/ (m[1] = n[1] /\ m[2] = "full")

Best(ms) == CHOOSE m \in ms : \A n \in ms \ {m} : Better(m, n)

\* The link comes up, when both ends have a mode in common.
Negotiate ==
    /\ linkMode = NoLink /\ Advertised \cap partner # {}
    /\ linkMode' = Best(Advertised \cap partner)
    /\ flapped' = (flapped \/ link)
    /\ UNCHANGED <<partner, changes, ctrl1000, eState, phy, step, todo, mac, netif, app,
                   sure, restarted, unheard>>

\* The cable is unplugged, or plugged in elsewhere.
Cable == /\ changes < CableChanges
         /\ changes' = changes + 1
         /\ partner' \in Partners \ {partner}
         /\ linkMode' = NoLink
         /\ UNCHANGED <<ctrl1000, eState, phy, step, todo, mac, netif, app, ghosts>>

-----------------------------------------------------------------------------
(* phy_task.                                                               *)

\* Mutant: the speed is decided after the duplex mode.
ResolveFullFirst(lpa) ==
    CASE <<1000, "full">> \in lpa -> <<1000, "full">>
      [] <<1000, "full">> \notin lpa /\ <<100, "full">> \in lpa -> <<100, "full">>
      [] OTHER -> <<10, IF <<10, "full">> \in lpa THEN "full" ELSE "half">>

\* bt_phy_generic_read_status: the mode, from what both ends advertise.
Resolve(lpa) ==
    LET duplex(speed) == IF <<speed, "full">> \in lpa THEN "full" ELSE "half"
    IN  CASE lpa \cap Gigabit # {} -> <<1000, duplex(1000)>>
          [] lpa \cap Gigabit = {} /\ (\E m \in lpa : m[1] = 100) -> <<100, duplex(100)>>
          [] OTHER -> <<10, duplex(10)>>

Poll == /\ step = "sleep" /\ step' = "clock"
        /\ UNCHANGED <<hw, ctrl1000, eState, phy, todo, mac, netif, app, ghosts>>

\* phy_sm in DOWN or UP: bt_phy_generic_update_link ...
ReadLink == /\ step = "clock" /\ eState \in {"DOWN", "UP"}
            /\ link' = (linkMode # NoLink)
            /\ flapped' = (flapped /\ link' /\ eState = "UP")
            /\ step' = "status" /\ todo' = eState    \* the state switched on
            /\ UNCHANGED <<hw, ctrl1000, eState, mode, advertising, val, mac, netif, app,
                           sure, restarted, unheard>>

\* Mutant: only a link that comes up is a change.
LinkCame == link /\ todo = "DOWN"

\* phy_sm found the link up in DOWN or down in UP.
LinkChanged == link = (todo = "DOWN")

\* ... the other registers, and: any change in the link?
ReadStatus == /\ step = "status"
              /\ mode' = Resolve(Advertised \cap partner)
              /\ IF LinkChanged THEN step' = "set" /\ todo' = "CHANGELINK"
                 ELSE step' = "sleep" /\ todo' = "DOWN"
              /\ UNCHANGED <<hw, ctrl1000, eState, link, advertising, val, mac, netif, app,
                             ghosts>>

(* phy_sm in STARTING or RENEGOTIATE calls phy_init.  First                *)
(* marvell_phy_init writes its table: all modes are advertised, and the    *)
(* PHY is reset.                                                           *)
MarvellInit(next) ==
    /\ ctrl1000' = Gigabits /\ linkMode' = NoLink
    /\ sure' = advertising_mask
    /\ step' = "init" /\ todo' = next
    /\ UNCHANGED <<partner, changes, eState, phy, mac, netif, app, flapped, unheard>>

Starting == /\ step = "clock" /\ eState = "STARTING"
            /\ MarvellInit("RENEGOTIATE")
            /\ UNCHANGED restarted

Renegotiate == /\ step = "clock" /\ eState = "RENEGOTIATE"
               /\ MarvellInit("DOWN")
               /\ restarted' = (restarted \/ (netifUp /\ ~manual))

(* Then bt_phy_generic_init reads the mask three times: for                *)
(* phy->advertising ...                                                    *)
Advertise ==
    /\ step = "init" /\ step' = "half"
    /\ advertising' = Supported \ advertising_mask
    /\ val' = ctrl1000
    /\ UNCHANGED <<hw, ctrl1000, eState, link, mode, todo, mac, netif, app, ghosts>>

\* ... for the half duplex mode ...
MaskHalf ==
    /\ step = "half" /\ step' = "full"
    /\ val' = val \ (advertising_mask \cap {<<1000, "half">>})
    /\ UNCHANGED <<hw, ctrl1000, eState, link, mode, advertising, todo, mac, netif, app,
                   ghosts>>

\* Mutant: the mask decides about the half duplex mode only.
FullMaskIgnored == val

\* The value for BT_PHY_MII_CTRL1000, when the full duplex mode is masked too.
FullMasked == val \ (advertising_mask \cap {<<1000, "full">>})

(* ... and for the full duplex mode, before it writes the register.  In    *)
(* RENEGOTIATE a reset makes the PHY negotiate anew.                       *)
MaskFull ==
    /\ step = "full" /\ step' = "set"
    /\ ctrl1000' = FullMasked /\ val' = {}
    /\ linkMode' = IF todo = "DOWN" THEN NoLink ELSE linkMode
    /\ UNCHANGED <<partner, changes, eState, link, mode, advertising, todo, mac, netif, app,
                   ghosts>>

\* eState is assigned, and the machine is clocked again.
SetState == /\ step = "set" /\ todo \notin {"up", "down"}
            /\ eState' = todo
            /\ step' = "clock" /\ todo' = "DOWN"
            /\ UNCHANGED <<hw, ctrl1000, phy, mac, netif, app, ghosts>>

\* mac_adjust_link.
MacAdjustLink == /\ macMode' = IF link THEN mode ELSE macMode
                 /\ macLink' = link

\* CHANGELINK without a MAC stays; with one it adjusts the MAC ...
ChangeLink == /\ step = "clock" /\ eState = "CHANGELINK"
              /\ IF active_mac THEN /\ MacAdjustLink
                                    /\ step' = "set" /\ todo' = IF link THEN "up" ELSE "down"
                 ELSE step' = "sleep" /\ UNCHANGED <<mac, todo>>
              /\ UNCHANGED <<hw, ctrl1000, eState, phy, netif, app, ghosts>>

\* ... sets eState ...
SetLinkState == /\ step = "set" /\ todo \in {"up", "down"}
                /\ eState' = IF link THEN "UP" ELSE "DOWN"
                /\ step' = "notify" /\ todo' = "DOWN"
                /\ UNCHANGED <<hw, ctrl1000, phy, mac, netif, app, ghosts>>

\* ... and notifies the interface (bt_netif_adjust_link), if netif->phy is set.
Notify == /\ step = "notify" /\ step' = "sleep"
          /\ IF netifPhy THEN netifUp' = link /\ manual' = FALSE /\ UNCHANGED unheard
             ELSE unheard' = TRUE /\ UNCHANGED <<netifUp, manual>>
          /\ UNCHANGED <<hw, ctrl1000, eState, phy, todo, mac, app, sure, flapped,
                         restarted>>

-----------------------------------------------------------------------------
(* Other threads.                                                          *)

\* BT_ConnectPHY: active_mac, then eState, then netif->phy.
ConnectPHY ==
    /\ \/ /\ connect = "mac" /\ connect' = "start"
          /\ active_mac' = TRUE
          /\ UNCHANGED <<eState, netifPhy>>
       \/ /\ connect = "start" /\ connect' = "netif"
          /\ eState' = "STARTING"
          /\ UNCHANGED <<active_mac, netifPhy>>
       \/ /\ connect = "netif" /\ connect' = "done"
          /\ netifPhy' = TRUE
          /\ UNCHANGED <<active_mac, eState>>
    /\ UNCHANGED <<hw, ctrl1000, phy, step, todo, mac, netif, calls, advertising_mask,
                   ghosts>>

\* The calls of the application, as many as the bound allows.
Call == calls < Calls /\ calls' = calls + 1

ConfigureLink(mask) ==
    /\ Call /\ netifPhy
    /\ advertising_mask' = mask
    /\ sure' = sure \cap mask
    /\ UNCHANGED <<hw, ctrl1000, eState, phy, step, todo, mac, netif, active_mac, netifPhy,
                   connect, flapped, restarted, unheard>>

RestartLink ==
    /\ Call /\ netifPhy
    /\ eState' = "RENEGOTIATE"
    /\ UNCHANGED <<hw, ctrl1000, phy, step, todo, mac, netif, active_mac, netifPhy,
                   connect, advertising_mask, ghosts>>

\* BT_StartNetif and BT_StopNetif: the application's own word on the interface.
StartStopNetif(up) ==
    /\ Call
    /\ netifUp' = up /\ manual' = TRUE
    /\ UNCHANGED <<hw, ctrl1000, eState, phy, step, todo, mac, active_mac, netifPhy,
                   connect, advertising_mask, ghosts>>

-----------------------------------------------------------------------------
PhyTask == Poll \/ ReadLink \/ ReadStatus \/ Starting \/ Renegotiate \/ Advertise
           \/ MaskHalf \/ MaskFull \/ SetState \/ ChangeLink \/ SetLinkState \/ Notify

LinkNext == Negotiate \/ Cable \/ PhyTask \/ ConnectPHY \/ RestartLink
            \/ (\E mask \in Masks : ConfigureLink(mask))
            \/ (\E up \in BOOLEAN : StartStopNetif(up))

(* phy_task polls every second, the probe that connects the PHY goes on,   *)
(* and two ends that can negotiate a mode do.                              *)
LinkFairness == WF_linkVars(PhyTask) /\ WF_linkVars(ConnectPHY) /\ WF_linkVars(Negotiate)

LinkSpec == LinkInit /\ [][LinkNext]_linkVars /\ LinkFairness

-----------------------------------------------------------------------------
LinkTypeOK == /\ partner \in Partners /\ linkMode \in Mode \cup {NoLink}
              /\ ctrl1000 \subseteq Gigabit /\ val \subseteq Gigabit
              /\ changes \in 0 .. CableChanges /\ calls \in 0 .. Calls
              /\ eState \in {"DOWN", "STARTING", "UP", "RENEGOTIATE", "CHANGELINK"}
              /\ link \in BOOLEAN /\ mode \in Mode \cup {NoLink}
              /\ advertising \subseteq Mode /\ advertising_mask \subseteq Mode
              /\ active_mac \in BOOLEAN /\ netifPhy \in BOOLEAN
              /\ connect \in {"mac", "start", "netif", "done"}
              /\ step \in {"sleep", "clock", "status", "init", "half", "full", "set", "notify"}
              /\ todo \in {"DOWN", "UP", "RENEGOTIATE", "CHANGELINK", "up", "down"}
              /\ macMode \in Mode \cup {NoLink} /\ macLink \in BOOLEAN
              /\ netifUp \in BOOLEAN /\ manual \in BOOLEAN /\ sure \subseteq Mode
              /\ flapped \in BOOLEAN /\ restarted \in BOOLEAN /\ unheard \in BOOLEAN

(* While phy_task sleeps with the PHY UP and the link really up, the MAC   *)
(* runs at the speed and duplex mode the two ends negotiated, unless the   *)
(* link went down and came back between two polls.                         *)
MacMatches == eState = "UP" /\ step = "sleep" /\ linkMode # NoLink /\ ~flapped
                  => macMode = linkMode /\ macLink

(* A gigabit mode that BT_NetifConfigureLink disabled before phy_init      *)
(* began, and did not enable again since, is not in use while phy_task     *)
(* sleeps, nor does BT_NetifGetLinkState say it is advertised: not even    *)
(* the table that marvell_phy_init writes, which advertises all modes and  *)
(* resets the PHY before the mask is applied, brings such a mode back.     *)
MaskedModeUnused == step = "sleep" => /\ linkMode \notin sure \cap Gigabit
                                      /\ advertising \cap sure = {}

(* "The PHY management layer calls this function when the PHY detects a    *)
(* change" (bt_netif_adjust_link): when cable and PHY come to rest, the    *)
(* interface is up exactly if the link is, unless the application had the  *)
(* last word, a renegotiation began with the interface reported up, or the *)
(* first change came before netif->phy was set.                            *)
LinkReported == \/ <>[](manual \/ netifUp = (linkMode # NoLink))
                \/ <>restarted
                \/ <>unheard
=============================================================================
