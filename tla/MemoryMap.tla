------------------------------ MODULE MemoryMap ------------------------------
(***************************************************************************)
(* The memory of a platform on the way to its first picture.  MemoryPeim   *)
(* walks the platform's table and turns its rows into resource HOBs, into  *)
(* allocation HOBs, from which the DXE core learns what it may hand out,   *)
(* and into the table of the MMU; SimpleFbDxe later clears the frame buffer*)
(* at the address of a PCD.  Addresses and lengths are in pages of 4 KB, of*)
(* which every one in the tables is a multiple.  The attributes of the     *)
(* resources are left out, and so is the Terminator: a sequence ends.  The *)
(* blanks in the names of the rows are underscores.  The walk is one step: *)
(* nothing else runs before it is through.                                 *)
(***************************************************************************)
EXTENDS Integers, Sequences

CONSTANT Platforms   \* the platforms, of the four there are, to look at

ASSUME PlatformsAssumption == Platforms \subseteq {"t1100", "t1", "emerald", "roo"}

VARIABLES platform,     \* the platform the firmware was built for
          hobs,         \* the numbers of the rows that have a resource HOB
          allocations,  \* of those that have a memory allocation HOB
          mmu,          \* and of those the MMU is configured with
          cleared       \* the pages SimpleFbDxe has cleared

memory == <<hobs, allocations, mmu, cleared>>

Row(name, base, length, resource, type, attributes) ==
    [name |-> name, base |-> base, length |-> length, hob |-> "AddMem",
     resource |-> resource, type |-> type, attributes |-> attributes]
Ram(name, base, length) == Row(name, base, length, "SYS_MEM", "Conv", "WRITE_BACK")
Reserved(name, base, length) == Row(name, base, length, "MEM_RES", "Reserv", "WRITE_BACK")

TableT1100 == <<
    Row("Periphs", \h0, \h1B000, "MEM_RES", "RtCode", "NS_DEVICE"),
    Row("DDR_Memory_1", \h40000, \hC00, "SYS_MEM", "Conv", "WRITE_BACK_XN"),
    Row("UEFI_Stack", \h40C00, \h40, "SYS_MEM", "BsData", "WRITE_BACK"),
    Row("CPU_Vectors", \h40C40, \h10, "SYS_MEM", "BsCode", "WRITE_BACK"),
    Ram("DXE_Heap", \h40C50, \h75B0), Ram("DDR_Memory_2", \h48400, \h7C00),
    Row("UEFI_FD", \h50000, \h700, "SYS_MEM", "BsCode", "WRITE_BACK"),
    Ram("DDR_Memory_3", \h50700, \h3F00), Reserved("ATF_Mem", \h54600, \h50),
    Ram("DDR_Memory_4", \h54650, \h9B0), Ram("RamDisk", \h55000, \h1000),
    Ram("DDR_Memory_5", \h56000, \h1A600), Ram("DDR_Memory_6", \h73C00, \h43F0),
    Reserved("SPM_Mem", \h77FF0, \h10), Ram("DDR_Memory_7", \h78000, \h4B80),
    Ram("DDR_Memory_8", \h7FE00, \h100), Reserved("SSPM_Mem", \h7FF00, \hC0),
    Ram("DDR_Memory_9", \h7FFC0, \h1CF40), Reserved("SCP_Mem", \h9CF00, \h600),
    Ram("DDR_Memory_10", \h9D500, \hF0), Reserved("VPU_Mem", \h9D5F0, \h2A10),
    Ram("DDR_Memory_11", \hA0000, \hA0000), Reserved("TEE_Memory", \h70000, \h3C00),
    Reserved("TrustZone_SecMem", \h7FC00, \h200),
    Row("Framebuffer", \h7CB80, \h3080, "MEM_RES", "Reserv", "WRITE_THROUGH_XN")>>

TableT1 == <<
    Row("Periphs", \h0, \h1B000, "MEM_RES", "RtCode", "NS_DEVICE"),
    Row("DDR_Memory_1", \h40000, \hC00, "SYS_MEM", "Conv", "WRITE_BACK_XN"),
    Row("UEFI_Stack", \h40C00, \h40, "SYS_MEM", "BsData", "WRITE_BACK"),
    Row("CPU_Vectors", \h40C40, \h10, "SYS_MEM", "BsCode", "WRITE_BACK"),
    Ram("DXE_Heap", \h40C50, \h75B0), Ram("DDR_Memory_2", \h48400, \h7C00),
    Row("UEFI_FD", \h50000, \h700, "SYS_MEM", "BsCode", "WRITE_BACK"),
    Ram("DDR_Memory_3", \h50700, \h3F00), Reserved("ATF_Mem", \h54600, \h50),
    Ram("DDR_Memory_4", \h54650, \h9B0), Ram("RamDisk", \h55000, \h1000),
    Ram("DDR_Memory_5", \h56000, \h15FF0), Reserved("Aurora_TEE", \h6BFF0, \h4010),
    Reserved("Aurora_TEE_AD", \h70000, \h10), Reserved("Aurora_TEE_Shmem", \h70010, \h200),
    Ram("DDR_Memory_6", \h70210, \h7DE0), Reserved("SPM_Mem", \h77FF0, \h10),
    Ram("DDR_Memory_7", \h78000, \h6C50),
    Row("Framebuffer", \h7EC50, \hFB0, "MEM_RES", "Reserv", "WRITE_THROUGH_XN"),
    Reserved("TrustZone_SecMem", \h7FC00, \h200), Ram("DDR_Memory_8", \h7FE00, \h100),
    Reserved("SSPM_Mem", \h7FF00, \hC0), Ram("DDR_Memory_9", \h7FFC0, \h1CF40),
    Reserved("SCP_Mem", \h9CF00, \h600), Ram("DDR_Memory_10", \h9D500, \hF0),
    Reserved("VPU_Mem", \h9D5F0, \h2A10), Ram("DDR_Memory_11", \hA0000, \hA0000)>>

TableEmerald == <<
    Row("Periphs", \h0, \h1B000, "MEM_RES", "RtCode", "NS_DEVICE"),
    Row("DDR_Memory_1", \h40000, \hC00, "SYS_MEM", "Conv", "WRITE_BACK_XN"),
    Row("UEFI_Stack", \h40C00, \h40, "SYS_MEM", "BsData", "WRITE_BACK"),
    Row("CPU_Vectors", \h40C40, \h10, "SYS_MEM", "BsCode", "WRITE_BACK"),
    Ram("DXE_Heap", \h40C50, \h75B0), Reserved("BL31", \h48200, \h200),
    Ram("DDR_Memory_2", \h48400, \h7C00),
    Row("UEFI_FD", \h50000, \hA00, "SYS_MEM", "BsCode", "WRITE_BACK"),
    Ram("DDR_Memory_3", \h50A00, \h16500), Ram("RamDisk", \h66F00, \h6000),
    Ram("DDR_Memory_4", \h6CF00, \h3100), Reserved("TrustZone_Mem", \h70000, \h8800),
    Ram("DDR_Memory_5", \h78800, \h5200), Reserved("TrustZone_SHM", \h7DA00, \h400),
    Reserved("TrustZone_SecMem", \h7DE00, \h800), Ram("DDR_Memory_6", \h7E600, \h600),
    Reserved("GenieZone_Mem", \h7EC00, \h1200), Ram("DDR_Memory_7", \h7FE00, \hF200),
    Reserved("SCP_IPC", \h8F000, \h5B0), Ram("DDR_Memory_8", \h8F5B0, \hFFB0),
    Reserved("SSPM_IPC", \h9F560, \h110), Ram("DDR_Memory_9", \h9F670, \h800),
    Reserved("SSPM_Mem", \h9FE70, \h180), Ram("DDR_Memory_10", \h9FFF0, \h1FA10),
    Reserved("SCP_Mem", \hBFA00, \h400), Ram("DDR_Memory_11", \hBFE00, \h3E2D0),
    Row("Framebuffer", \hFE0D0, \h1F2F, "MEM_RES", "Reserv", "WRITE_THROUGH_XN"),
    Ram("DDR_Memory_12", \hFFFFF, \h140001)>>

TableRoo == <<
    Row("Periphs", \h0, \h1B000, "MEM_RES", "RtCode", "NS_DEVICE"),
    Row("HLOS_0", \h40000, \hC00, "SYS_MEM", "Conv", "WRITE_BACK_XN"),
    Row("UEFI_Stack", \h40C00, \h40, "SYS_MEM", "BsData", "WRITE_BACK"),
    Row("CPU_Vectors", \h40C40, \h10, "SYS_MEM", "BsCode", "WRITE_BACK"),
    Ram("HLOS_1", \h40C50, \hF3B0),
    Row("UEFI_FD", \h50000, \h700, "SYS_MEM", "BsCode", "WRITE_BACK"),
    Reserved("ATF_Reserved", \h47D80, \h50), Reserved("SPM_Reserved", \h77FF0, \h10),
    Reserved("TEE_Reserved", \h7CD00, \h3200), Reserved("SSPM_Reserved", \h7FF00, \hC0),
    Reserved("SCP_Reserved", \h9F900, \h600),
    Row("Display_Reserved", \h7BEE0, \hE20, "MEM_RES", "Reserv", "WRITE_THROUGH_XN")>>

MemoryMapLibs == [t1100 |-> TableT1100, t1 |-> TableT1, emerald |-> TableEmerald, roo |-> TableRoo]
GetPlatformMemoryMap == MemoryMapLibs[platform]

\* The frame buffer PCDs of a platform and, for the layers, of its SoC.
Pcds == [t1100   |-> [width |-> 1600, height |-> 2176, base |-> \h7CB80, layers |-> 3],
         t1      |-> [width |-> 720, height |-> 1600, base |-> \h7EC50, layers |-> 3],
         emerald |-> [width |-> 1088, height |-> 2400, base |-> \hFE0D0, layers |-> 3],
         roo     |-> [width |-> 736, height |-> 1440, base |-> \h7BEE0, layers |-> 2]]
Pcd == Pcds[platform]

MemoryInit == /\ platform \in Platforms
              /\ hobs = {} /\ allocations = {} /\ mmu = {}
              /\ cleared = {}
-----------------------------------------------------------------------------
\* What the walk does with a row is its HobOption's: a row for another amount of
\* memory than Mem is passed over, a row without a HOB is mapped all the same,
\* and a row for a HOB only is not mapped.
Mem == "Mem4G"
PassedOver(row) == row.hob \in {"Mem4G", "Mem6G", "Mem8G", "Mem10G", "Mem12G"} \ {Mem}
HasHob(row) == row.hob \in {Mem, "AddMem", "AddDev", "HobOnlyNoCacheSetting"}
IsMapped(row) == ~ PassedOver(row) /\ row.hob # "HobOnlyNoCacheSetting"

\* Mutant: every row that has a HOB also counts as allocated.
IsAllocatedAlways(row) == HasHob(row)

\* AddHob allocates system memory, with the type of the row, and what runtime
\* services keep.
IsAllocated(row) == HasHob(row) /\ (row.resource = "SYS_MEM" \/ row.type = "RtData")

RowsWhere(Test(_)) == {i \in DOMAIN GetPlatformMemoryMap : Test(GetPlatformMemoryMap[i])}

MemoryPeim ==
    /\ mmu = {}
    /\ hobs' = RowsWhere(HasHob)
    /\ allocations' = RowsWhere(IsAllocated)
    /\ mmu' = RowsWhere(IsMapped)
    /\ UNCHANGED <<platform, cleared>>

\* A frame has four bytes a pixel; all four platforms have frames of whole pages.
FrameBufferSize == (4 * Pcd.width * Pcd.height) \div 4096

Pages(base, length) == [base |-> base, length |-> length]
Overlap(p, q) == p.base < q.base + q.length /\ q.base < p.base + p.length
Within(p, q) == q.base <= p.base /\ p.base + p.length <= q.base + q.length

\* SimpleFbDxeInitialize clears as many frames as the loop has turns: 0 to the
\* number of layers, this one included.
ClearFrames ==
    cleared' = {Pages(Pcd.base + i * FrameBufferSize, FrameBufferSize) : i \in 0 .. Pcd.layers}
-----------------------------------------------------------------------------
MapTypeOK == /\ platform \in Platforms
             /\ \A rows \in {hobs, allocations, mmu} : rows \subseteq DOMAIN GetPlatformMemoryMap
             /\ \A p \in cleared : p.base >= Pcd.base

\* Two rows that describe the same pages, which two of the tables have: free
\* memory of t1100 reaches 6 MB into that of its TEE, and free memory of roo
\* covers what the ARM trusted firmware keeps.
KnownOverlaps == {<<"DDR_Memory_5", "TEE_Memory">>, <<"HLOS_1", "ATF_Reserved">>}

\* The rows that share pages with a row of a platform's table, itself among them.
Sharing == [p \in DOMAIN MemoryMapLibs |->
               LET T == MemoryMapLibs[p]
               IN  [i \in DOMAIN T |-> {j \in DOMAIN T : Overlap(T[i], T[j])}]]

\* As MemoryPeim describes it, no page is described twice and nothing the DXE core
\* may hand out or run from reaches into a reserved region, but for the overlaps
\* above; and the frames of all layers, which SimpleFbDxe will draw in, lie in one
\* region, reserved and mapped write-through.
FramesAreKept ==
    LET row == GetPlatformMemoryMap
        Known(i, j) == <<row[i].name, row[j].name>> \in KnownOverlaps
    IN  mmu # {} /\ cleared = {} =>
          /\ \A i \in hobs : \A j \in Sharing[platform][i] \cap hobs : i < j => Known(i, j)
          /\ \A i \in allocations : \A j \in Sharing[platform][i] \cap mmu :
                row[j].type = "Reserv" => Known(i, j)
          /\ \E i \in mmu :
                /\ row[i].attributes = "WRITE_THROUGH_XN" /\ row[i].resource = "MEM_RES"
                /\ Within(Pages(Pcd.base, Pcd.layers * FrameBufferSize), row[i])

\* What the clear of the screen writes is frame buffer: the region of the table
\* that begins at the frame buffer's address, which holds the layers.
ClearStaysInFrameBuffer ==
    \A p \in cleared :
        \E i \in mmu : /\ GetPlatformMemoryMap[i].base = Pcd.base
                       /\ Within(p, GetPlatformMemoryMap[i])
=============================================================================
