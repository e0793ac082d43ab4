------------------------------ MODULE MCStage2 ------------------------------
(***************************************************************************)
(* A small instance of Stage2: a blob of a header, a kernel of one or two  *)
(* blocks, a device tree and an initramfs, and one block behind it.  The   *)
(* two versions have last blocks that are full and not.                    *)
(***************************************************************************)
EXTENDS Stage2Protocol

MCLayout ==
    <<[image_sz |-> 3, dtb_sz |-> 2, initrd_sz |-> 2, image_lba |-> 1, dtb_lba |-> 3, initrd_lba |-> 4],
      [image_sz |-> 2, dtb_sz |-> 1, initrd_sz |-> 3, image_lba |-> 1, dtb_lba |-> 2, initrd_lba |-> 3]>>

BlobEnd == 4
Test == <<"test">>

\* sd_update.py: a segment of a version's blocks.
Segment(v, first, last) ==
    Send("u32", first) \o Send("u32", last - first + 1)
    \o FoldLeft(LAMBDA s, l : s \o SendBlock(l, <<v, l>>) \o HearDone("K", l, <<v, l>>),
                <<>>, [i \in 1 .. last - first + 1 |-> first + i - 1])
OpenMulti(segs) == Send("mode", "W") \o Hear({Is("MW_READY")}) \o Send("u32", segs)
Update(v) == OpenMulti(2) \o Hear({Is("MW_GO")}) \o Segment(v, 0, Layout[v].dtb_lba - 1)
             \o Segment(v, Layout[v].dtb_lba, BlobEnd) \o Hear({Is("MW_DONE")})
Wipe == OpenMulti(1) \o Hear({Is("MW_GO")}) \o Send("u32", 0) \o Send("u32", 1)
        \o SendBlock(0, Test) \o HearDone("K", 0, Test) \o Hear({Is("MW_DONE")})
BadCount == OpenMulti(2) \o Hear({Is("MW_GO")}) \o Segment(2, 0, 1)
            \o Send("u32", 2) \o Send("u32", MAX_SECS + 1) \o Hear({Is("MW_DONE")})

ReadHeaderScript == Send("mode", "R") \o Hear({Is("RD_READY")})
                    \o Hear({DataIs(b) : b \in BlockValues}) \o Hear({Is("RD_DONE")})
DumpScript(lba, n) == Send("mode", "d") \o Send("u32", lba) \o Send("u32", n)
                      \o Hear({Is("DUMP_READY")})
                      \o Hear({DataIs(b) : b \in BlockValues}) \o Hear({Is("DUMP_END")})
TestScript == Send("mode", "w") \o Hear({Is("SEND_512")}) \o SendBlock(TEST_LBA, Test)
              \o HearDone("WRITE_OK", TEST_LBA, Test)
\* n probes are on the line before the host has seen BAUD_OK.
BaudScript(b, n) == Send("mode", "B") \o Send("u32", b) \o Hear({Is("BAUD_SWITCH")}) \o Rate(b)
                    \o FlattenSeq([i \in 1 .. n |-> Send("probe", Empty)]) \o Hear({Is("BAUD_OK")})

Payload(v, lba, bytes) == Send("payload", [i \in 1 .. Blocks(bytes) |-> <<v, lba + i - 1>>])
LinuxScript(v, dtb_lba) ==
    LET h == Layout[v]
    IN  Send("mode", "l") \o Payload(v, h.image_lba, h.image_sz)
        \o Payload(v, dtb_lba, h.dtb_sz) \o Payload(v, h.initrd_lba, h.initrd_sz)

UpdateScripts == {Update(v) : v \in Versions} \cup {Send("mode", "b")}
MCScripts ==
    UpdateScripts \cup {ReadHeaderScript, TestScript, BadCount, Wipe, OpenMulti(0) \o Hear({Is("MW_GO")}),
    DumpScript(0, 1), DumpScript(0, 0), DumpScript(BlobEnd + 1, 2), Send("mode", "s") \o Hear({Is("smoke")}),
    LinuxScript(2, 2), LinuxScript(2, 3), Send("mode", "u") \o Payload(1, 1, 2),
    Send("mode", "l"), Send("mode", "l") \o Payload(2, 1, 2),
    Send("mode", "l") \o Payload(2, 1, 2) \o Payload(2, 2, 1), Send("mode", "u"),
    BaudScript(MAX_BAUD, 1), BaudScript(MAX_BAUD, 2), BaudScript(MAX_BAUD + 1, 1)}
TestScripts == {TestScript, Send("mode", "b")}
ProbeScripts == {BaudScript(MAX_BAUD, n) : n \in 1 .. 2}
=============================================================================
