------------------------------ MODULE GXVram ------------------------------
(***************************************************************************)
(* The banks of video memory (libraries/gx/src/gx_vramcnt.c and gxstate.c) *)
(* and the locks that libraries take on them (os/src/os_vramExclusive.c).  *)
(* One thread calls GX; another library may lock banks between two steps   *)
(* of it.  GX_SetBankFor<use> is the build without SDK_FINALROM, which     *)
(* locks as GX_TrySetBankFor<use> does, and panics where that returns      *)
(* FALSE.  The values of the enumerations are sets of banks.               *)
(***************************************************************************)
EXTENDS Integers

CONSTANTS Banks,     \* the banks a behaviour deals with
          GX,        \* GXi_VRamLockId
          WVR,       \* wvrLockId, the other library's lock ID
          Unlocked

ASSUME GXVramAssumption ==
    /\ Banks \subseteq {"A", "B", "C", "D", "E", "F", "G", "H", "I"}
    /\ GX # WVR /\ GX # Unlocked /\ WVR # Unlocked

Order(b) == CASE b = "A" -> 1 [] b = "B" -> 2 [] b = "C" -> 3 [] b = "D" -> 4 [] b = "E" -> 5
              [] b = "F" -> 6 [] b = "G" -> 7 [] b = "H" -> 8 [] b = "I" -> 9
\* HW_VRAM_x_SIZE, in units of 16 KB.
Size(b) == CASE b \in {"A", "B", "C", "D"} -> 8 [] b = "E" -> 4 [] b = "H" -> 2
             [] b \in {"F", "G", "I"} -> 1

(***************************************************************************)
(* The settings each GX_VRAM_<use>_ASSERT admits, as sets of banks.        *)
(***************************************************************************)
ABCD == {"A", "B", "C", "D"}
EFG == {"E", "F", "G"}
AllSettings == [
    lcdc          |-> SUBSET Banks,
    bg            |-> SUBSET ABCD \cup SUBSET EFG,
    obj           |-> SUBSET {"A", "B"} \cup SUBSET EFG,
    arm7          |-> SUBSET {"C", "D"},
    tex           |-> SUBSET ABCD,
    clrImg        |-> {{}, {"A", "B"}, {"C", "D"}, {"A"}, {"B"}, {"C"}, {"D"}},
    texPltt       |-> {{}, {"F"}, {"G"}, {"F", "G"}, {"E"}, {"E", "F"}, {"E", "F", "G"}},
    bgExtPltt     |-> {{}, {"F"}, {"G"}, {"E"}, {"F", "G"}},
    objExtPltt    |-> {{}, {"F"}, {"G"}},
    sub_bg        |-> {{}, {"C"}, {"H"}, {"H", "I"}},
    sub_obj       |-> {{}, {"D"}, {"I"}},
    sub_bgExtPltt |-> {{}, {"H"}},
    sub_objExtPltt |-> {{}, {"I"}}]
Uses == DOMAIN AllSettings
Settings(u) == {s \in AllSettings[u] : s \subseteq Banks}
BGEx1 == (SUBSET EFG) \ {{}}
BGEx2 == (SUBSET ABCD) \ {ABCD}

(***************************************************************************)
(* Where GX_VRAMCNT_Set<use>_ maps a bank of setting s: an address space   *)
(* and an offset in it.  The banks of a setting follow each other in the   *)
(* order of their names; the clear images end at texture slot 3; banks F   *)
(* and G have their own halves of the extended BG palettes.                *)
(***************************************************************************)
SizeOf(s) ==
    LET Part(b) == IF b \in s THEN Size(b) ELSE 0
    IN  Part("A") + Part("B") + Part("C") + Part("D") + Part("E") + Part("F") + Part("G")
            + Part("H") + Part("I")
Before(s, b) == {c \in s : Order(c) < Order(b)}
Space(u) == IF u = "clrImg" THEN "tex" ELSE u
Offset(u, s, b) ==
    CASE u = "lcdc" -> 0
      [] u = "clrImg" -> 32 - SizeOf(s \ Before(s, b))
      [] u = "bgExtPltt" -> IF b = "G" THEN 1 ELSE 0
      [] OTHER -> SizeOf(Before(s, b))
Mapped(u, s, b) == [space |-> Space(u), at |-> Offset(u, s, b)]
\* GX_VRAMCNT_SetBGEx1_ and SetBGEx2_: the large banks follow at 0x06020000.
MappedEx(s1, s2, b) ==
    [space |-> "bg", at |-> IF b \in s1 THEN SizeOf(Before(s1, b)) ELSE 8 + SizeOf(Before(s2, b))]
Disabled == [space |-> "none", at |-> 0]
LCDC == [space |-> "lcdc", at |-> 0]

\* The uses whose enable bit Set<use>_ writes, and those for which
\* GX_ResetBankFor and GX_DisableBankFor clear it.
Displayed == {"tex", "clrImg", "bgExtPltt", "objExtPltt", "sub_bgExtPltt", "sub_objExtPltt"}
ExtPltts == {"bgExtPltt", "objExtPltt", "sub_bgExtPltt", "sub_objExtPltt"}

VARIABLES lockId,   \* bank -> who holds it, OSi_vramExclusive and OSi_vramLockId
          vramCnt,  \* use -> its banks, gGXState.vramCnt
          reg,      \* bank -> what its register maps it to
          enabled,  \* the uses whose enable bit is set
          gx        \* the GX call in progress

gxVars == <<lockId, vramCnt, reg, enabled, gx>>

NoGxCall == [call |-> "none", use |-> "lcdc", banks |-> {}, large |-> {}]

(***************************************************************************)
(* OSi_TryLockVram and OSi_UnlockVram, with interrupts disabled.           *)
(***************************************************************************)
CanLock(s, id) == \A b \in s : lockId[b] \in {Unlocked, id}
Locked(s, id) == [b \in Banks |-> IF b \in s THEN id ELSE lockId[b]]
Released(s, id) ==
    [b \in Banks |-> IF b \in s /\ lockId[b] = id THEN Unlocked ELSE lockId[b]]

GXInit ==
    /\ lockId = [b \in Banks |-> Unlocked]
    /\ vramCnt = [u \in Uses |-> {}]
    /\ reg = [b \in Banks |-> Disabled]
    /\ enabled = {}
    /\ gx = NoGxCall

(***************************************************************************)
(* GX_SetBankFor<use>: the lock, then state and registers.  What the use   *)
(* had before goes to the LCDC.                                            *)
(***************************************************************************)
\* The caller names banks that are free, the LCDC's or the use's own; for
\* the LCDC, banks no other use has (GX_StateCheck_VRAMCnt).
NoConflict(u, s) == \A v \in Uses \ {u, "lcdc"} : vramCnt[v] \cap s = {}

TryLock(u, s, large) ==
    /\ gx = NoGxCall /\ NoConflict(u, s \cup large)
    /\ CanLock(s \cup large, GX)
    /\ lockId' = Locked(s \cup large, GX)
    /\ gx' = [call |-> "set", use |-> u, banks |-> s, large |-> large]
    /\ UNCHANGED <<vramCnt, reg, enabled>>

GX_SetBankFor(u, s) == s \in Settings(u) /\ TryLock(u, s, {})

GX_SetBankForBGEx(s1, s2) ==
    /\ s1 \in BGEx1 /\ s2 \in BGEx2 /\ s1 \cup s2 \subseteq Banks /\ s2 # {}
    /\ TryLock("bg", s1, s2)

\* Mutation: the LCDC keeps the banks that the use takes from it.
NewLCDC_KeepsTaken(u, s) == vramCnt.lcdc \cup vramCnt[u] \cup (IF u = "lcdc" THEN s ELSE {})

NewLCDC(u, s) ==
    IF u = "lcdc" THEN vramCnt.lcdc \cup s ELSE (vramCnt.lcdc \cup vramCnt[u]) \ s

SetBank ==
    LET u == gx.use
        s == gx.banks \cup gx.large
        lcdc == NewLCDC(u, s)
    IN  /\ gx.call = "set"
        /\ vramCnt' = IF u = "lcdc" THEN [vramCnt EXCEPT !.lcdc = lcdc]
                      ELSE [vramCnt EXCEPT !.lcdc = lcdc, ![u] = s]
        /\ reg' = [b \in Banks |->
                    IF b \in lcdc THEN LCDC
                    ELSE IF b \notin s THEN reg[b]
                    ELSE IF gx.large # {} THEN MappedEx(gx.banks, gx.large, b)
                    ELSE Mapped(u, s, b)]
        /\ enabled' = IF u \notin Displayed THEN enabled
                      ELSE IF s = {} THEN enabled \ {u} ELSE enabled \cup {u}
        /\ gx' = NoGxCall
        /\ UNCHANGED lockId

(***************************************************************************)
(* GX_ResetBankFor<use> gives the banks to the LCDC and keeps their locks. *)
(* The enable bits of textures and clear images stay as they are.          *)
(***************************************************************************)
GX_ResetBankFor(u) ==
    LET s == vramCnt[u] IN
    /\ gx = NoGxCall /\ u # "lcdc" /\ s # {}
    /\ CanLock(s, GX) /\ lockId' = Locked(s, GX)
    /\ vramCnt' = [vramCnt EXCEPT ![u] = {}, !.lcdc = @ \cup s]
    /\ reg' = [b \in Banks |-> IF b \in s THEN LCDC ELSE reg[b]]
    /\ enabled' = enabled \ ({u} \cap ExtPltts)
    /\ UNCHANGED gx

(***************************************************************************)
(* GX_DisableBankFor<use> switches the banks off and then unlocks them.    *)
(***************************************************************************)
GX_DisableBankFor(u) ==
    LET s == vramCnt[u] IN
    /\ gx = NoGxCall /\ s # {}
    /\ CanLock(s, GX) /\ lockId' = Locked(s, GX)
    /\ vramCnt' = [vramCnt EXCEPT ![u] = {}]
    /\ reg' = [b \in Banks |-> IF b \in s THEN Disabled ELSE reg[b]]
    /\ enabled' = enabled \ ({u} \cap ExtPltts)
    /\ gx' = [NoGxCall EXCEPT !.call = "disable", !.banks = s]

UnlockDisabled ==
    /\ gx.call = "disable"
    /\ lockId' = Released(gx.banks, GX)
    /\ gx' = NoGxCall
    /\ UNCHANGED <<vramCnt, reg, enabled>>

GXNext ==
    \/ \E u \in Uses : \E s \in Settings(u) : GX_SetBankFor(u, s)
    \/ \E s1 \in BGEx1, s2 \in BGEx2 : GX_SetBankForBGEx(s1, s2)
    \/ SetBank
    \/ \E u \in Uses : GX_ResetBankFor(u) \/ GX_DisableBankFor(u)
    \/ UnlockDisabled

(***************************************************************************)
(* Properties.                                                             *)
(***************************************************************************)
\* Every bank has at most one use: GX_StateCheck_VRAMCnt finds no conflict
\* after any sequence of calls that names no bank of another use.
OneUseEach == \A u, v \in Uses : u # v => vramCnt[u] \cap vramCnt[v] = {}

\* What GX records a bank for, it holds the lock of, and the bank's register
\* maps it there: no other library's setting shows through.
UseIsMapped ==
    \A u \in Uses : \A b \in vramCnt[u] :
        lockId[b] = GX /\ reg[b].space = Space(u)

\* No two banks answer the same address: the banks of one use do not
\* overlap, nor do clear images and textures, which share their slots.
\* (LCDC has an address for each bank.)
NoAddressTwice ==
    \A u, v \in Uses \ {"lcdc"} : Space(u) = Space(v) =>
        \A b \in vramCnt[u], c \in vramCnt[v] : b # c =>
            \/ reg[b].at + Size(b) <= reg[c].at
            \/ reg[c].at + Size(c) <= reg[b].at

\* An extended palette is never read from banks it does not have.
EnabledHasBanks == \A u \in ExtPltts : u \in enabled <=> vramCnt[u] # {}

\* Locks, records, registers and enable bits agree between any two calls.
BanksAgree == OneUseEach /\ UseIsMapped /\ NoAddressTwice /\ EnabledHasBanks
=============================================================================
