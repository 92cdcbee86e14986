------------------------------ MODULE MCReload ------------------------------
(* The controller with small files: one changes the wire, one the device    *)
(* and the stm tier, one the pin and the stm tier, one is refused for a     *)
(* single wrong field.  All ask for frames of one size and a running board; *)
(* a frame of another size may come in all the same.                        *)
EXTENDS Reload

Doc(pi, stm) == [pi |-> pi, stm |-> stm]
Field(name, v) == [f \in {name} |-> v]
Empty == [f \in {} |-> 0]

Wire   == Doc(Field("spi_cpha", Number(10)), Field("run_state", Text("run")))
Device == Doc(Field("spi_dev", Number(14)), Field("sample_rate_hz", Number(1000)))
Pin    == Doc(Field("dataready_pin", Number(220)), Field("imu_rate_hz", Number(100)))
Broken == Doc(Field("spi_cpha", Number(10)), Field("block_rows", Number(9)))

MCDocs == {Wire, Device, Pin, Broken}
Rewired == {Wire, Doc(Empty, Empty)}
MCFrameRows == {100, StmDefaults.block_rows}
MCConfFiles == {SpiConfKeys, SpiConfKeys \ {"idle_insert"}}
=============================================================================
