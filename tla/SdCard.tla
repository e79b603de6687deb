------------------------------- MODULE SdCard -------------------------------
(***************************************************************************)
(* The disk driver (earth/dev_disk.c) and the SD card driver below it      *)
(* (earth/sd), talking to a card over SPI.  Every byte the driver sends    *)
(* shifts one byte out of the card: 0xFF (255) when the card has nothing   *)
(* to say, 0 while it is busy, else the next byte of its answer.  Loops    *)
(* that poll take one step per byte; loops of a fixed length are one step. *)
(*                                                                         *)
(* The driver runs alone: GPID_FILE and GPID_PROCESS are not preempted,    *)
(* and the paging device runs in the kernel with interrupts off.           *)
(***************************************************************************)
EXTENDS Naturals, Sequences

CONSTANTS
  BLOCK_SIZE,   \* bytes of a block
  Blocks,       \* blocks of the card
  Data,         \* contents of a block, sequences of BLOCK_SIZE bytes
  Tries,        \* replies that sd_exec_cmd() polls for, 8000 in the code
  MaxWait       \* most bytes a working card lets pass before it goes on

ASSUME SdAssumption ==
  /\ BLOCK_SIZE \in Nat \ {0} /\ Blocks \in Nat \ {0}
  /\ Data # {} /\ Data \subseteq [1 .. BLOCK_SIZE -> 0 .. 255]
  /\ MaxWait \in Nat /\ Tries \in Nat /\ MaxWait < Tries

VARIABLES
  disk_type,      \* SD_CARD or FLASH_ROM
  SD_CARD_TYPE,   \* what sdinit() found out
  d,              \* the driver: where it is, its loop counters and buffer
  card,           \* the card: type, bytes to shift out, start-up, faulty
  flash           \* the blocks stored on the card, or in the ROM

vars == <<disk_type, SD_CARD_TYPE, d, card, flash>>

-----------------------------------------------------------------------------
(* The card, as the driver uses it.                                        *)

CardTypes == {"SD1", "SD2", "SDHC"}
Waits == {[k \in 1 .. w |-> 255] : w \in 0 .. MaxWait}
Busy  == {[k \in 1 .. w |-> 0]   : w \in 0 .. MaxWait}

(* The block at an argument of cmd17 or cmd24: SDHC cards count blocks,    *)
(* the others bytes.                                                       *)
BlockAt(arg) == IF card.type = "SDHC" THEN arg ELSE arg \div BLOCK_SIZE
Aligned(arg) == BlockAt(arg) \in 0 .. Blocks - 1
                /\ (card.type # "SDHC" => arg % BLOCK_SIZE = 0)

Answers(cmd, arg) ==
  CASE cmd = "cmd0"   -> {<<1>>, <<63, 1>>}
    [] cmd = "cmd8"   -> {IF card.type = "SD1" THEN <<5>> ELSE <<1, 0, 0, 1, 170>>}
    [] cmd = "cmd55"  -> {<<1>>}
    [] cmd = "acmd41" -> {<<IF card.warmup = 0 THEN 0 ELSE 1>>}
    [] cmd = "cmd16"  -> {<<0>>}
    [] cmd = "cmd58"  -> {<<0, IF card.type = "SDHC" THEN 192 ELSE 128, 255, 128, 0>>}
    [] cmd = "cmd17" /\ Aligned(arg) ->
         {<<0>> \o w \o <<254>> \o flash[BlockAt(arg)] \o <<255, 0>> : w \in Waits}
    [] cmd = "cmd24" /\ Aligned(arg) -> {<<0>>}
    [] OTHER -> {<<32>>}

(* A faulty card may also be silent, or report an error instead of data.   *)
Faults(cmd) == IF cmd = "cmd17" THEN {<<>>, <<32>>, <<0, 8>>}
               ELSE IF cmd = "cmd24" THEN {<<>>, <<32>>} ELSE {<<>>}

(* The card gets a command; it is lost on a card that is still talking.    *)
CardGets(cmd, arg) ==
  IF card.out = << >>
  THEN \E w \in Waits,
          a \in Answers(cmd, arg) \cup IF card.faulty THEN Faults(cmd) ELSE {} :
         card' = [card EXCEPT !.out = w \o a,
                              !.warmup = IF cmd = "acmd41" /\ @ > 0
                                         THEN @ - 1 ELSE @]
  ELSE card' = [card EXCEPT !.out = SubSeq(@, 7, Len(@))]

(* The card gets a data packet: it stores the block or, if faulty, may     *)
(* refuse it; then it is busy for a while.                                 *)
CardStores(arg, block) ==
  \E w \in Waits, b \in Busy :
    \/ /\ card' = [card EXCEPT !.out = w \o <<229>> \o b]
       /\ flash' = [flash EXCEPT ![BlockAt(arg)] = block]
    \/ /\ card.faulty
       /\ card' = [card EXCEPT !.out = w \o <<237>> \o b]
       /\ UNCHANGED flash

-----------------------------------------------------------------------------
(* The driver.  d.cmd is the command it is about to send or has sent; at   *)
(* "drain" it waits for 0xFF before the next one (two such loops in a row  *)
(* are one), at "poll" for a reply, at "reply" it looks at the reply.      *)

recv_data_byte == IF card.out = << >> THEN 255 ELSE Head(card.out)
Receive(n) == card' = [card EXCEPT !.out = SubSeq(@, n + 1, Len(@))]
Received(n) == [k \in 1 .. n |-> IF k <= Len(card.out) THEN card.out[k] ELSE 255]

Goto(label) == d' = [d EXCEPT !.pc = label]
FATAL == Goto("FATAL")
ThenSend(cmd) == d' = [d EXCEPT !.pc = "drain", !.cmd = cmd]

Init ==
  /\ disk_type \in {"SD_CARD", "FLASH_ROM"}
  /\ SD_CARD_TYPE = "UNKNOWN"
  /\ flash \in [0 .. Blocks - 1 -> Data]
  /\ \E t \in CardTypes, w \in 0 .. MaxWait, f \in BOOLEAN :
       card = [type |-> t, out |-> << >>, warmup |-> w, faulty |-> f]
  /\ d = [pc |-> IF disk_type = "SD_CARD" THEN "cmd" ELSE "idle",
          cmd |-> "cmd0", tries |-> 0, reply |-> 255,
          op |-> "none", off |-> 0, n |-> 0, i |-> 0, buf |-> << >>]

Drain_never == Goto(IF d.cmd = "none" THEN "idle" ELSE "cmd")
Drain == Goto(IF recv_data_byte # 255 THEN "drain"
              ELSE IF d.cmd = "none" THEN "idle" ELSE "cmd")

WaitNotBusy ==
  /\ d.pc = "drain"
  /\ Receive(1) /\ Drain
  /\ UNCHANGED <<disk_type, SD_CARD_TYPE, flash>>

(* The argument of cmd17 and cmd24.                                        *)
Offset == IF SD_CARD_TYPE = "SD2" THEN (d.off + d.i) * BLOCK_SIZE
                                  ELSE d.off + d.i

sd_exec_cmd ==
  /\ d.pc = "cmd"
  /\ CardGets(d.cmd, Offset)
  /\ d' = [d EXCEPT !.pc = "poll", !.tries = 0]
  /\ UNCHANGED <<disk_type, SD_CARD_TYPE, flash>>

GiveUp_early == d.tries + 1 >= MaxWait
GiveUp == d.tries + 1 = Tries

PollReply ==
  /\ d.pc = "poll"
  /\ Receive(1)
  /\ IF recv_data_byte # 255
     THEN d' = [d EXCEPT !.pc = "reply", !.reply = recv_data_byte]
     ELSE d' = [d EXCEPT !.pc = IF GiveUp THEN "FATAL" ELSE "poll",
                         !.tries = @ + 1]
  /\ UNCHANGED <<disk_type, SD_CARD_TYPE, flash>>

ReplyTo(cmd) == d.pc = "reply" /\ d.cmd = cmd /\ UNCHANGED <<disk_type, flash>>

-----------------------------------------------------------------------------
(* sdinit().                                                               *)

Cmd0Reply ==
  /\ ReplyTo("cmd0")
  /\ IF d.reply # 1
     THEN Receive(1) /\ d' = [d EXCEPT !.reply = recv_data_byte]
     ELSE ThenSend("cmd8") /\ UNCHANGED card
  /\ UNCHANGED SD_CARD_TYPE

(* An illegal command is a version 1 card; others echo the check pattern.  *)
Cmd8Reply ==
  /\ ReplyTo("cmd8")
  /\ IF (d.reply \div 4) % 2 = 1
     THEN SD_CARD_TYPE' = "SD1" /\ ThenSend("cmd55") /\ UNCHANGED card
     ELSE /\ Receive(4)
          /\ IF (Received(4)[3] % 16) * 256 + Received(4)[4] = 426
             THEN SD_CARD_TYPE' = "SD2" /\ ThenSend("cmd55")
             ELSE FATAL /\ UNCHANGED SD_CARD_TYPE

(* sd_exec_acmd(acmd41), again and again until the card has started.       *)
Cmd55Reply ==
  /\ ReplyTo("cmd55")
  /\ ThenSend("acmd41")
  /\ UNCHANGED <<SD_CARD_TYPE, card>>

Ready_inverted == d.reply # 0
Ready == d.reply = 0

Acmd41Reply ==
  /\ ReplyTo("acmd41")
  /\ ThenSend(IF Ready THEN "cmd16" ELSE "cmd55")
  /\ UNCHANGED <<SD_CARD_TYPE, card>>

Cmd16Reply ==
  /\ ReplyTo("cmd16")
  /\ ThenSend(IF SD_CARD_TYPE = "SD2" THEN "cmd58" ELSE "none")
  /\ UNCHANGED <<SD_CARD_TYPE, card>>

HighCapacity(ocr) == ocr[1] \div 64 = 3

Cmd58Reply ==
  /\ ReplyTo("cmd58")
  /\ Receive(4)
  /\ SD_CARD_TYPE' = IF HighCapacity(Received(4)) THEN "SDHC" ELSE SD_CARD_TYPE
  /\ ThenSend("none")

sdinit == Cmd0Reply \/ Cmd8Reply \/ Cmd55Reply \/ Acmd41Reply
          \/ Cmd16Reply \/ Cmd58Reply

-----------------------------------------------------------------------------
(* disk_read() and disk_write(): sdread() and sdwrite(), or the ROM.  The  *)
(* callers name blocks of the disk, but for the paging device, which       *)
(* writes at block 0xFFFFFFF8 when it evicts an empty slot (dev_page.c).   *)
(* Beyond stands for that number: past every card, in blocks or bytes.     *)

Beyond == Blocks * BLOCK_SIZE

Request ==
  /\ d.pc = "idle"
  /\ \E op \in {"read", "write"}, o \in (0 .. Blocks - 1) \cup {Beyond},
        n \in 1 .. Blocks :
       /\ o + n <= Blocks \/ (op = "write" /\ o = Beyond)
       /\ \E src \in IF op = "write" THEN [1 .. n -> Data] ELSE {<< >>} :
            d' = [d EXCEPT !.pc = "block", !.op = op, !.off = o, !.n = n,
                           !.i = 0, !.buf = src]
  /\ UNCHANGED <<disk_type, SD_CARD_TYPE, card, flash>>

NextBlock ==
  /\ d.pc = "block"
  /\ IF d.i = d.n THEN d' = [d EXCEPT !.pc = "idle", !.op = "none"]
     ELSE IF disk_type = "FLASH_ROM" /\ d.op = "write" THEN FATAL
     ELSE IF disk_type = "FLASH_ROM"
     THEN d' = [d EXCEPT !.i = @ + 1, !.buf = Append(@, flash[d.off + d.i])]
     ELSE ThenSend(IF d.op = "read" THEN "cmd17" ELSE "cmd24")
  /\ UNCHANGED <<disk_type, SD_CARD_TYPE, card, flash>>

(* single_read(): the token, the block and two bytes of checksum.          *)
Cmd17Reply ==
  /\ ReplyTo("cmd17")
  /\ IF d.reply # 0 THEN FATAL ELSE Goto("token")
  /\ UNCHANGED <<SD_CARD_TYPE, card>>

Token_any == recv_data_byte # 255
Token == recv_data_byte = 254

WaitToken ==
  /\ d.pc = "token"
  /\ Receive(1)
  /\ Goto(IF Token THEN "data" ELSE "token")
  /\ UNCHANGED <<disk_type, SD_CARD_TYPE, flash>>

PacketLength_no_checksum == BLOCK_SIZE
PacketLength == BLOCK_SIZE + 2

ReadData ==
  /\ d.pc = "data"
  /\ Receive(PacketLength)
  /\ d' = [d EXCEPT !.pc = "block", !.i = @ + 1,
                    !.buf = Append(@, Received(BLOCK_SIZE))]
  /\ UNCHANGED <<disk_type, SD_CARD_TYPE, flash>>

(* single_write(): the packet, then its acknowledgement.                   *)
Cmd24Reply ==
  /\ ReplyTo("cmd24")
  /\ IF d.reply # 0 THEN FATAL ELSE Goto("packet")
  /\ UNCHANGED <<SD_CARD_TYPE, card>>

SendPacket ==
  /\ d.pc = "packet"
  /\ CardStores(Offset, d.buf[d.i + 1])
  /\ Goto("ack")
  /\ UNCHANGED <<disk_type, SD_CARD_TYPE>>

Accepted_any == recv_data_byte # 255
Accepted == recv_data_byte % 32 = 5

WaitAck ==
  /\ d.pc = "ack"
  /\ Receive(1)
  /\ IF recv_data_byte = 255 THEN UNCHANGED d
     ELSE IF Accepted THEN d' = [d EXCEPT !.pc = "block", !.i = @ + 1]
     ELSE FATAL
  /\ UNCHANGED <<disk_type, SD_CARD_TYPE, flash>>

(* The callers make no request, or tty_fatal() loops.                      *)
Halt == d.pc \in {"idle", "FATAL"} /\ UNCHANGED vars

Work == WaitNotBusy \/ sd_exec_cmd \/ PollReply \/ sdinit \/ NextBlock
        \/ Cmd17Reply \/ WaitToken \/ ReadData
        \/ Cmd24Reply \/ SendPacket \/ WaitAck
Next == Request \/ Work \/ Halt

(* The driver is code that runs: it takes its next step.                   *)
Spec == Init /\ [][Next]_vars /\ WF_vars(Work)

-----------------------------------------------------------------------------
(* Correctness.                                                            *)

(* The variables have the types the code declares.                         *)
TypeOK ==
  /\ disk_type \in {"SD_CARD", "FLASH_ROM"}
  /\ SD_CARD_TYPE \in CardTypes \cup {"UNKNOWN"}
  /\ flash \in [0 .. Blocks - 1 -> Data]
  /\ card.out \in Seq(0 .. 255) /\ card.warmup \in 0 .. MaxWait
  /\ d.tries \in 0 .. Tries /\ d.reply \in 0 .. 255
  /\ d.off \in (0 .. Blocks - 1) \cup {Beyond} /\ d.n \in 0 .. Blocks
  /\ d.off # Beyond => d.off + d.n <= Blocks
  /\ d.i \in 0 .. d.n
  /\ d.buf \in Seq(Data)

(* sd_exec_cmd() is only called when the card has shifted out all of its   *)
(* last answer and is no longer busy: no command is lost, and no reply is  *)
(* a left-over byte of an earlier one.                                     *)
CommandsMeetIdleCard == d.pc = "cmd" => card.out = << >>

(* The FATAL of sd_exec_cmd(), of the status checks and of the voltage     *)
(* check accuse the card.  A working card of whatever type is started,     *)
(* however slow within the limit, and serves every request for its blocks  *)
(* without one, but for a version 1 card: that counts bytes, and its block *)
(* numbers are not scaled, so that it refuses those that are not multiples *)
(* of the block size.  The other two FATALs are disk_write() to the ROM    *)
(* and a request past the end.                                             *)
OnlyFaultsAreFatal ==
  d.pc = "FATAL" =>
    \/ card.faulty
    \/ d.op = "write" /\ (disk_type = "FLASH_ROM" \/ d.off = Beyond)
    \/ d.op # "none" /\ card.type = "SD1" /\ Offset % BLOCK_SIZE # 0

(* A request to a working card returns or stops in FATAL, sdinit()         *)
(* included, although no polling loop but that of sd_exec_cmd() has a      *)
(* limit.                                                                  *)
RequestsReturn ==
  ~ card.faulty /\ disk_type = "SD_CARD" => []<>(d.pc \in {"idle", "FATAL"})

(* disk_read() and disk_write() implement BlockDevice, on the ROM and on   *)
(* every card but those of version 1, faulty or not: a block that has been *)
(* stored but not yet acknowledged counts as written.  On a version 1 card *)
(* block BLOCK_SIZE is the first place after 0 that the driver reaches,    *)
(* and holds block 1.                                                      *)
Stored == d.pc = "ack" /\ \E k \in DOMAIN card.out : card.out[k] % 32 = 5
Device == INSTANCE BlockDevice WITH
  blocks <- flash,
  req <- [op |-> IF d.pc = "FATAL" THEN "stopped" ELSE d.op, off |-> d.off,
          n |-> d.n, i |-> IF Stored THEN d.i + 1 ELSE d.i, buf |-> d.buf]
Scaled == disk_type = "SD_CARD" => card.type # "SD1"
ImplementsBlockDevice ==
  /\ Scaled => Device!Init
  /\ [][Scaled => [Device!Next]_Device!vars]_vars
=============================================================================
