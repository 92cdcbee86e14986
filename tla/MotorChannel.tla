---------------------------- MODULE MotorChannel ----------------------------
(* The sender of motor_send.c seen as a FrameChannel: the buffer in the     *)
(* DMA's hands holds the frame on offer, the other one the frame that waits. *)
EXTENDS MotorSend

OnOffer == IF s_tx_idx < 0 THEN NoFrame ELSE s_frame[s_tx_idx]
Behind  == IF s_pending THEN s_frame[Other(s_tx_idx)] ELSE NoFrame

Channel == INSTANCE FrameChannel
             WITH next <- s_seq, current <- OnOffer, waiting <- Behind, line <- dr,
                  errors <- g_spi_err

(* The double-buffered sender, with its interrupts, refused arms and SPI    *)
(* errors, implements the channel: every block interrupt, completion and    *)
(* error of motor_send.c is one step of it and everything else a stutter.   *)
ChannelSpec == Channel!Spec
=============================================================================
