------------------------------ MODULE GicTable ------------------------------
(***************************************************************************)
(* The interrupt controller's table: filled from the MADT of ACPI, from a  *)
(* device tree or from the bare metal configuration, walked by type up to  *)
(* its terminator, and used to find a hart's redistributor, an MSI frame   *)
(* of a GICv2m and the trigger of an interrupt.                            *)
(***************************************************************************)
EXTENDS DeviceTree, FiniteSets

CONSTANTS
  RdFrame,   \* GICR_CTLR_FRAME_SIZE + GICR_SGI_PPI_FRAME_SIZE
  Stride     \* GICD_ICFGR_INTR_STRIDE, the interrupts of a configuration register

VARIABLES
  gicSource,   \* the description, and what the controller's registers read
  gic,         \* GIC_INFO_TABLE; ended: the terminator was written
  v2m          \* g_v2m_msi_info->msi_info, <<>> before it is parsed

gicVars == <<gicSource, gic, v2m>>

NoGic == [built |-> FALSE, version |-> 0, num_gicr_rd |-> 0, num_its |-> 0, num_msi_frame |-> 0,
          supervisor |-> 0, guest |-> 0, info |-> <<>>, ended |-> FALSE, inited |-> FALSE]
Entry(type, base, length) == [type |-> type, base |-> base, length |-> length, spi_base |-> 0, spi_count |-> 0]

-----------------------------------------------------------------------------
(* The device tree.                                                        *)

\* Region k of "reg": its address and its size.
Region(type, cells, k, ac, sc) ==
  LET at == k * (ac + sc) IN Entry(type, Address(cells, at, ac), Address(cells, at + ac, sc))

\* The controller's own regions: distributor, the redistributors of a GICv3, one
\* CPU interface for every hart if there is one, the virtual interface of a GICv2.
\* interfaces - rd is unsigned.  Bug: a redistributor region too few is read.
RdRegions_Last(dt) == (IF dt.rdRegions = Garbage THEN 1 ELSE dt.rdRegions) - 1
RdRegions(dt) == IF dt.rdRegions = Garbage THEN 1 ELSE dt.rdRegions

pal_gic_create_info_table_dt(dt) ==
  LET region(type, k) == Region(type, dt.reg, k, dt.ac, dt.sc)
      interfaces == Len(dt.reg) \div (dt.ac + dt.sc)
      rd == IF dt.version = 3 THEN RdRegions(dt) ELSE 0
      cpuif == interfaces < rd \/ interfaces - rd > 1
      own == <<region("GICD", 0)>> \o [k \in 1..rd |-> region("GICR_GICRD", k)]
             \o (IF cpuif THEN [h \in 1..dt.harts |-> region("CPUIF", rd + 1)] ELSE <<>>)
             \o (IF dt.version = 2 /\ interfaces - 1 > 1 THEN <<region("GICH", 2)>> ELSE <<>>)
  IN [NoGic EXCEPT !.version = dt.version, !.num_gicr_rd = rd, !.info = own]

\* The frames of a GICv2m after them: at one without "reg" the table is left
\* without a terminator.
V2mFrames(table, dt) ==
  LET one(t, frame) ==
        IF ~t.ended THEN t
        ELSE IF ~Present(frame.reg) THEN [t EXCEPT !.ended = FALSE]
        ELSE [t EXCEPT !.num_msi_frame = @ + 1,
                                !.info = Append(@, [Region("GIC_MSI_FRAME", frame.reg, 0, dt.frameAc, dt.frameSc)
                                                      EXCEPT !.spi_base = frame.spi_base, !.spi_count = frame.spi_count])]
  IN InOrder(one, [table EXCEPT !.ended = TRUE], dt.frames)

GicFromDt(dt) ==
  IF dt.version = 0 THEN [NoGic EXCEPT !.ended = TRUE]
  ELSE IF ~Present(dt.reg) THEN [NoGic EXCEPT !.version = dt.version, !.ended = TRUE]
  ELSE IF dt.version = 2 THEN V2mFrames(pal_gic_create_info_table_dt(dt), dt)
  ELSE [pal_gic_create_info_table_dt(dt) EXCEPT !.num_its = dt.its, !.ended = TRUE]

-----------------------------------------------------------------------------
(* ACPI and bare metal.                                                    *)

\* The last IMSIC structure counts; a PLIC's entry is overwritten by the
\* terminator, for the entry is not stepped over.
pal_gic_create_info_table_acpi(madt) ==
  LET one(t, e) == IF e.type = "IMSIC" THEN [t EXCEPT !.supervisor = e.supervisor, !.guest = e.guest] ELSE t IN
    InOrder(one, [NoGic EXCEPT !.ended = TRUE], madt)

pal_gic_create_info_table_bm(cfg) ==
  LET list(type, bases, length) == [k \in DOMAIN bases |-> Entry(type, bases[k], length)] IN
    [NoGic EXCEPT !.version = cfg.version, !.num_gicr_rd = Len(cfg.gicr), !.num_its = Len(cfg.its),
                  !.num_msi_frame = Len(cfg.frames), !.ended = TRUE,
                  !.info = list("CPUIF", cfg.gicc, 0) \o list("GICC_GICRD", cfg.gicc_rd, cfg.gicc_rd_length)
                           \o list("GICR_GICRD", cfg.gicr, cfg.gicr_length) \o list("GICD", cfg.gicd, 0)
                           \o list("GICITS", cfg.its, 0) \o list("GICH", cfg.gich, 0)
                           \o [k \in DOMAIN cfg.frames |->
                                 [Entry("GIC_MSI_FRAME", cfg.frames[k].base, 0)
                                    EXCEPT !.spi_base = cfg.frames[k].spi_base, !.spi_count = cfg.frames[k].spi_count]]]

\* The table, then val_bsa_gic_init unless ACPI described it.
val_gic_create_info_table ==
  /\ ~gic.built
  /\ gic' = [IF gicSource.by = "dt" THEN GicFromDt(gicSource.dt)
             ELSE IF gicSource.by = "bm" THEN pal_gic_create_info_table_bm(gicSource.cfg)
             ELSE IF ~gicSource.hasMadt THEN NoGic
             ELSE pal_gic_create_info_table_acpi(gicSource.madt)
             EXCEPT !.built = TRUE, !.inited = gicSource.by # "acpi"]
  /\ UNCHANGED <<gicSource, v2m>>
-----------------------------------------------------------------------------
(* Walks of the table.                                                     *)

Indices(types) == {k \in DOMAIN gic.info : gic.info[k].type \in types}
Least(set) == CHOOSE k \in set : \A j \in set : k <= j

\* The base of the first entry of a type.
FirstBase(type) ==
  LET found == Indices({type}) IN
    IF found # {} THEN gic.info[Least(found)].base
    ELSE IF gic.ended THEN 0
    ELSE Garbage

val_get_gicd_base == FirstBase("GICD")
val_get_gich_base == FirstBase("GICH")
val_get_cpuif_base == FirstBase("CPUIF")

\* <<base, length>> of redistributor region index, or of the first entry of a
\* hart's redistributor if that comes before.
NoBase == <<0, 0>>
val_get_gicr_base(index) ==
  LET at == {k \in Indices({"GICR_GICRD"}) : Cardinality({j \in Indices({"GICR_GICRD"}) : j < k}) = index}
      found == at \cup Indices({"GICC_GICRD"})
      first == Least(found)
  IN IF found = {} THEN NoBase
     ELSE IF gic.info[first].type = "GICC_GICRD" THEN <<gic.info[first].base, 0>>
     ELSE <<gic.info[first].base, gic.info[first].length>>

\* The affinity GICR_TYPER reads at an address; no two frames have the same.
Typer(base) == IF base \in DOMAIN gicSource.typer THEN gicSource.typer[base] ELSE Garbage

RdFrames(region) == {region[1] + k * RdFrame : k \in 0..((region[2] - 1) \div RdFrame)}

val_gic_get_hart_rdbase(affinity) ==
  LET only == val_get_gicr_base(0)
      frames == UNION {{f \in RdFrames(val_get_gicr_base(k)) : Typer(f) = affinity} : k \in 0..(gic.num_gicr_rd - 1)}
  IN IF gic.num_gicr_rd = 0 /\ only[2] = 0 THEN IF Typer(only[1]) = affinity THEN only[1] ELSE 0
     ELSE IF frames = {} THEN 0
     ELSE Least(frames)

\* The header's counts, or GICD_PIDR2 for a version that is not there.
val_gic_get_info(type) ==
  CASE type = "VERSION" -> IF gic.version # 0 THEN gic.version ELSE gicSource.pidr2
    [] type = "NUM_ITS" -> gic.num_its
    [] type = "NUM_MSI_FRAME" -> gic.num_msi_frame
val_gic_max_supervisor_intr_num == gic.supervisor
val_gic_max_guest_intr_num == gic.guest

-----------------------------------------------------------------------------
(* GICv2m frames.                                                          *)

val_gic_v2m_parse_info ==
  /\ gic.built /\ gic.ended /\ v2m = <<>>
  /\ v2m' = SelectSeq(gic.info, LAMBDA e : e.type = "GIC_MSI_FRAME")
  /\ UNCHANGED <<gicSource, gic>>

\* What the table lacks is read from the frame's MSI_TYPER.
val_gic_v2m_get_info(type, instance) ==
  LET frame == v2m[instance + 1] IN
    CASE type = "FRAME_BASE" -> frame.base
      [] type = "SPI_BASE" -> IF frame.spi_base # 0 THEN frame.spi_base ELSE gicSource.msiTyper[frame.base][1]
      [] type = "SPI_NUM" -> IF frame.spi_count # 0 THEN frame.spi_count ELSE gicSource.msiTyper[frame.base][2]

-----------------------------------------------------------------------------
(* The trigger of an interrupt: two bits each in the configuration         *)
(* registers, of which the higher one says edge.  edges is the set of      *)
(* <<register, bit>> that are set.                                         *)

\* GICD_ICFGR_INTR_CONFIG1: the macro reads int_id whatever its argument is.
GICD_ICFGR_INTR_CONFIG1(int_id) == (1 + int_id * 2) % (2 * Stride)

TriggerAt(set, offset, int_id) == IF <<offset, GICD_ICFGR_INTR_CONFIG1(int_id)>> \in set THEN "edge" ELSE "level"

val_gic_get_intr_trigger_type(int_id) ==
  IF int_id > gicSource.maxIntid THEN "error" ELSE TriggerAt(gicSource.icfgr, int_id \div Stride, int_id)

val_gic_get_espi_intr_trigger_type(int_id) ==
  IF int_id < gicSource.espi \/ int_id > gicSource.maxEspi THEN "error"
  ELSE TriggerAt(gicSource.icfgre, (int_id - gicSource.espi) \div Stride, int_id)

-----------------------------------------------------------------------------
GicInit(sources) == gicSource \in sources /\ gic = NoGic /\ v2m = <<>>

\* The controller found through the table is the one described, hw: its
\* distributor, every redistributor region by its index, the CPU interface and
\* the virtual one, the counts, the identities of the IMSICs; every hart with a
\* redistributor in a region of them finds its own frame (with one entry for
\* each hart only the first is tried); every MSI frame has its interrupts,
\* from the table or from the frame itself; every interrupt within the limits
\* its trigger, the extended ones included, and no other has one.
GicIsRight ==
  LET hw == gicSource.hw IN
    gic.built =>
      /\ hw.complete => gic.ended
      /\ gic.ended =>
           /\ val_get_gicd_base = hw.gicd /\ val_get_gich_base = hw.gich /\ val_get_cpuif_base = hw.cpuif
           /\ val_gic_get_info("VERSION") = hw.version
           /\ val_gic_get_info("NUM_ITS") = hw.its /\ val_gic_get_info("NUM_MSI_FRAME") = Len(hw.frames)
           /\ val_gic_max_supervisor_intr_num = hw.supervisor /\ val_gic_max_guest_intr_num = hw.guest
           /\ hw.gicr # <<>> => \A k \in DOMAIN hw.gicr : val_get_gicr_base(k - 1) = hw.gicr[k]
           /\ \A f \in DOMAIN gicSource.typer :
                (hw.gicr = <<>> => f = hw.gicc_rd[1]) => val_gic_get_hart_rdbase(gicSource.typer[f]) = f
      /\ v2m # <<>> =>
           \A k \in 0..(gic.num_msi_frame - 1) :
             /\ val_gic_v2m_get_info("FRAME_BASE", k) = hw.frames[k + 1].base
             /\ val_gic_v2m_get_info("SPI_BASE", k) = hw.frames[k + 1].first
             /\ val_gic_v2m_get_info("SPI_NUM", k) = hw.frames[k + 1].count
      /\ \A i \in 0..(gicSource.maxEspi + 1) :
           /\ val_gic_get_intr_trigger_type(i) =
                IF i > gicSource.maxIntid THEN "error" ELSE IF i \in hw.edge THEN "edge" ELSE "level"
           /\ val_gic_get_espi_intr_trigger_type(i) =
                IF i \notin gicSource.espi..gicSource.maxEspi THEN "error" ELSE IF i \in hw.edge THEN "edge" ELSE "level"
=============================================================================
