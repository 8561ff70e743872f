----------------------------- MODULE PacketHook -----------------------------
(***************************************************************************)
(* The netfilter hooks that decide on a packet: k6/01 drops ICMP, k6/02    *)
(* drops TCP to block_port, which root may change at any time, k6/04 takes *)
(* one from the TTL of outgoing packets.  The bytes of a packet may be     *)
(* shared with a clone (a capture, a retransmission queue): k6/04 has to   *)
(* get its own copy first, and the bytes then lie elsewhere.               *)
(***************************************************************************)
EXTENDS Naturals, FiniteSets

CONSTANTS Nodes,    \* addresses of packet bytes
          Ports,    \* destination ports, with 0
          MaxTtl,   \* bound: of the TTL a packet starts with
          Nil

VARIABLES exercise, filled,
          pc,       \* out, and the places inside the hook
          packet,   \* protocol and port; the TTL it came with
          loc,      \* iph
          skb,      \* where the bytes of the packet are
          clone,    \* where those of the clone are, if there is one
          ttl,      \* the TTL field at every address
          port,     \* block_port
          verdict

vars == <<exercise, filled, pc, packet, loc, skb, clone, ttl, port, verdict>>

Exercises == {"k6/01", "k6/02", "k6/04"}
Protocols == {"tcp", "icmp"}
Idle == [proto |-> "tcp", dest |-> 0, ttl |-> 0]
Packets == [proto: Protocols, dest: Ports, ttl: 0..MaxTtl]
Allocated == {skb, clone} \ {Nil}

Init == /\ exercise \in Exercises /\ filled \in BOOLEAN
        /\ pc = "out" /\ packet = Idle
        /\ loc = Nil /\ skb = Nil /\ clone = Nil
        /\ ttl = [n \in Nodes |-> 0]
        /\ port = 0 /\ verdict = Nil

\* A packet comes in, alone or with a clone that shares its bytes.
Receive == /\ pc = "out"
           /\ \E n \in Nodes, k \in Packets :
                 /\ packet' = k /\ skb' = n /\ loc' = n
                 /\ clone' \in {Nil, n}
                 /\ ttl' = [ttl EXCEPT ![n] = k.ttl]
           /\ pc' = "hook"
           /\ UNCHANGED <<exercise, filled, port, verdict>>

\* The owner of the clone is done with it.
DropClone == /\ clone # Nil
             /\ clone' = Nil
             /\ UNCHANGED <<exercise, filled, pc, packet, loc, skb, ttl, port, verdict>>

\* A change after the verdict cannot matter to it.
SetPort == /\ exercise = "k6/02" /\ pc # "done"
           /\ port' \in Ports
           /\ UNCHANGED <<exercise, filled, pc, packet, loc, skb, clone, ttl, verdict>>

Decide(v) == /\ pc' = "done" /\ verdict' = v
             /\ UNCHANGED <<exercise, filled, packet, loc, skb, clone, ttl, port>>
Goto(label) == /\ pc' = label
               /\ UNCHANGED <<exercise, filled, packet, loc, skb, clone, ttl, port, verdict>>

DropHook == /\ exercise = "k6/01" /\ pc = "hook"
            /\ Decide(IF filled /\ packet.proto = "icmp" THEN "drop" ELSE "accept")

\* block_port is read twice.
PortHook == /\ exercise = "k6/02"
            /\ \/ /\ pc = "hook"
                  /\ IF port = 0 \/ packet.proto # "tcp" \/ ~filled
                     THEN Decide("accept") ELSE Goto("header")
               \/ /\ pc = "header"
                  /\ Decide("accept")         \* skb_header_pointer found nothing
               \/ /\ pc = "header"
                  /\ Decide(IF packet.dest = port THEN "drop" ELSE "accept")

TtlHook ==
    /\ exercise = "k6/04"
    /\ \/ /\ pc = "hook"
          /\ IF ttl[loc] <= 1 \/ ~filled THEN Decide("accept") ELSE Goto("writable")
       \/ /\ pc = "writable"        \* skb_ensure_writable
          /\ \/ Decide("drop")
             \/ clone # skb /\ Goto("refetch")
             \/ /\ clone = skb
                /\ \E n \in Nodes \ Allocated :
                      /\ skb' = n
                      /\ ttl' = [ttl EXCEPT ![n] = ttl[skb]]
                /\ pc' = "refetch"
                /\ UNCHANGED <<exercise, filled, packet, loc, clone, port, verdict>>
       \/ /\ pc = "refetch"         \* iph = ip_hdr(skb)
          /\ loc' = skb
          /\ pc' = "decrease"
          /\ UNCHANGED <<exercise, filled, packet, skb, clone, ttl, port, verdict>>
       \/ /\ pc = "decrease"        \* ip_decrease_ttl
          /\ ttl' = [ttl EXCEPT ![loc] = @ - 1]
          /\ pc' = "done" /\ verdict' = "accept"
          /\ UNCHANGED <<exercise, filled, packet, loc, skb, clone, port>>

\* The packet goes on, or is freed; so is, in the end, its clone.
Leave == /\ pc = "done"
         /\ pc' = "out" /\ packet' = Idle
         /\ loc' = Nil /\ skb' = Nil /\ clone' = Nil /\ verdict' = Nil
         /\ ttl' = [n \in Nodes |-> 0]
         /\ UNCHANGED <<exercise, filled, port>>

Next == Receive \/ DropClone \/ SetPort \/ DropHook \/ PortHook \/ TtlHook \/ Leave
Spec == Init /\ [][Next]_vars

-----------------------------------------------------------------------------
TypeOK == /\ exercise \in Exercises /\ filled \in BOOLEAN
          /\ pc \in {"out", "hook", "header", "writable", "refetch", "decrease", "done"}
          /\ packet \in Packets \cup {Idle}
          /\ {loc, skb, clone} \subseteq Nodes \cup {Nil}
          /\ ttl \in [Nodes -> 0..MaxTtl]
          /\ port \in Ports /\ verdict \in {"accept", "drop", Nil}

\* The hook writes only to bytes that are its own: the clone keeps its TTL,
\* whenever its owner lets go of it.
MemorySafe == /\ pc = "decrease" => loc = skb /\ loc # clone
              /\ clone # Nil => ttl[clone] = packet.ttl

\* A packet that leaves has lost exactly one hop, a dying one none; a packet
\* is dropped for its port only if that is block_port.
Verdicts ==
    pc = "done" /\ filled =>
        /\ exercise = "k6/04" /\ verdict = "accept" =>
              ttl[skb] = IF packet.ttl <= 1 THEN packet.ttl ELSE packet.ttl - 1
        /\ exercise = "k6/02" /\ verdict = "drop" =>
              packet.proto = "tcp" /\ packet.dest = port
        /\ exercise = "k6/01" => (verdict = "drop" <=> packet.proto = "icmp")

-----------------------------------------------------------------------------
\* Why MemorySafe and Verdicts hold: until its TTL is taken down a packet has
\* the one it came with, wherever its bytes lie, and when it is, no clone has
\* those bytes.
Present == /\ IF pc = "out" THEN clone = Nil
              ELSE skb \in Nodes /\ loc \in Nodes /\ packet \in Packets
           /\ pc \in {"hook", "header", "writable"} => loc = skb
           /\ pc = "header" => exercise = "k6/02" /\ packet.proto = "tcp"
Intact == /\ pc \in {"hook", "header", "writable", "refetch", "decrease"} => ttl[skb] = packet.ttl
          /\ pc \in {"writable", "refetch", "decrease"} => exercise = "k6/04" /\ packet.ttl > 1
          /\ pc \in {"refetch", "decrease"} => clone # skb

IInv == TypeOK /\ Present /\ Intact /\ MemorySafe /\ Verdicts
=============================================================================
