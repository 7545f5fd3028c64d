--------------------------- MODULE InterruptProofs ---------------------------
(***************************************************************************)
(* Theorems about Exceptions, for any interrupt levels and any depth of    *)
(* the kernel stack, and, in the second half, about IsrDispatch.           *)
(*                                                                         *)
(* The stack of frames is read as levels of execution.  Shape says which   *)
(* code can be above which frame; Guarded says what pcb_onfault is worth:  *)
(* it is set exactly when a copy is under way and no uvm_fault above it    *)
(* has put it away, and each uvm_fault keeps in its own frame what was set *)
(* when it began.  Only then does trap know, when it looks at pcb_onfault, *)
(* what it has interrupted.                                                *)
(*                                                                         *)
(* The theorems assume that no interrupt handler takes a bus error.  The   *)
(* code does not handle one that does: see ExceptionsHandler.cfg.          *)
(***************************************************************************)
EXTENDS Exceptions, IsrDispatch, ListLemmas, FiniteSetTheorems

(* What the CPU can execute.                                                 *)
Codes == {"user", "kernel", "copy", "error", "trap", "uvm", "userret",
          "handler", "rei", "ast", "astret", "rte"}

(* What an exception can save.                                               *)
Frames == [pc : Codes, ipl : 0 .. 6, type : UserTypes \cup {"TRAP0", "INTR"},
           space : {"user", "kernel"}, page0 : BOOLEAN, onfault : BOOLEAN]

(* Levels of execution are counted from the bottom: level 0 is the process,  *)
(* level Depth what the CPU executes, and frame l is what level l returns    *)
(* through.  So a level keeps its number when another comes or goes above    *)
(* it.                                                                       *)
Depth == Len(stack)

(* The code at a level, interrupted or not.                                  *)
CodeAt(l) == IF l = Depth THEN pc ELSE stack[Depth - l].pc

(* The frame a level returns through.                                        *)
FrameAt(l) == stack[Depth - l + 1]

(* Why code c works for frame f of a fault: a process can take any, the      *)
(* kernel those that KernelException lists.  A copy routine that trap gave   *)
(* up is resumed at its error label, so only what leaves the trap can still  *)
(* find it under itself.                                                     *)
Faulted(c, f) ==
  \/ f.pc = "user"
  \/ f.type = "MMUFLT" /\ f.pc \in {"kernel", "uvm"} /\ f.space = "kernel"
  \/ f.type = "MMUFLT" /\ f.pc = "copy"
  \/ f.type = "BUSERR" /\ f.pc \in {"kernel", "copy"} /\ f.space = "kernel"
  \/ f.type = "COPERR" /\ f.pc = "kernel"
  \/ f.type \in {"MMUFLT", "BUSERR"} /\ f.pc = "error" /\ c \in {"rei", "rte"}

(* The code that can be found above a frame.  With HandlersFault = FALSE no  *)
(* fault is ever above an interrupt handler.                                 *)
Layer(c, f) ==
  /\ f.type = "INTR" => c \in {"handler", "rei", "ast", "astret", "rte"}
  /\ f.type = "TRAP0" => f.pc = "user" /\ c \in {"kernel", "copy", "error", "ast", "astret", "rte"}
  /\ f.type \in UserTypes =>
       c \in {"trap", "uvm", "userret", "rei", "ast", "astret", "rte"} /\ Faulted(c, f)
  /\ c = "uvm" => f.type = "MMUFLT"
  /\ c \in {"ast", "astret"} => f.pc = "user"

(* Every level fits the frame it returns through, and the bottom is the      *)
(* process.                                                                  *)
Shape ==
  /\ stack \in Seq(Frames) /\ pc \in Codes /\ ipl \in 0 .. 6 /\ onfault \in BOOLEAN
  /\ CodeAt(0) = "user"
  /\ \A l \in 1 .. Depth : Layer(CodeAt(l), FrameAt(l))

(* A copy under level l has pcb_onfault set, and no uvm_fault in between has *)
(* it saved away.                                                            *)
Armed(l) ==
  /\ l >= 1 /\ CodeAt(1) \in {"copy", "error"}
  /\ \A j \in 2 .. l : CodeAt(j) # "uvm"

(* pcb_onfault is set exactly when a copy is under way, and where uvm_fault  *)
(* works the frame keeps what is to be put back.                             *)
Guarded ==
  Running =>
    /\ onfault <=> Armed(Depth)
    /\ \A l \in 1 .. Depth : CodeAt(l) = "uvm" => (FrameAt(l).onfault <=> Armed(l - 1))

(* What holds of every state.                                                *)
ExcInv == Shape /\ Guarded /\ PanicsForKernel

(* An exception adds a level.                                                *)
LEMMA Push ==
  ASSUME Shape, NEW f \in Frames, f.pc = pc, stack' = <<f>> \o stack
  PROVE  /\ stack' \in Seq(Frames) /\ Depth \in Nat /\ Depth' = Depth + 1
         /\ \A l \in 0 .. Depth : CodeAt(l)' = CodeAt(l)
         /\ \A l \in 1 .. Depth : FrameAt(l)' = FrameAt(l)
         /\ CodeAt(Depth)' = pc' /\ FrameAt(Depth)' = f
<1>1. stack \in Seq(Frames)
  BY DEF Shape
<1>2. /\ stack' \in Seq(Frames) /\ Len(stack') = Len(stack) + 1 /\ Len(stack) \in Nat
      /\ \A j \in 1 .. (Len(stack) + 1) : stack'[j] = IF j = 1 THEN f ELSE stack[j - 1]
  BY <1>1
<1>3. Depth \in Nat /\ Depth' = Depth + 1
  BY DEF Depth
<1>4. ASSUME NEW l \in 0 .. Depth PROVE CodeAt(l)' = CodeAt(l)
  <2>1. CodeAt(l)' = stack'[Depth + 1 - l].pc
    BY DEF CodeAt, Depth
  <2>2. Depth + 1 - l \in 1 .. (Len(stack) + 1) /\ (Depth + 1 - l) - 1 = Depth - l
        /\ (Depth + 1 - l = 1 <=> l = Depth)
    BY DEF Depth
  <2>3. stack'[Depth + 1 - l] = IF l = Depth THEN f ELSE stack[Depth - l]
    BY <2>2
  <2>. QED
    BY <2>1, <2>3 DEF CodeAt
<1>5. ASSUME NEW l \in 1 .. Depth PROVE FrameAt(l)' = FrameAt(l)
  <2>1. FrameAt(l)' = stack'[Depth + 1 - l + 1]
    BY DEF FrameAt, Depth
  <2>2. Depth + 1 - l + 1 \in 1 .. (Len(stack) + 1) /\ (Depth + 1 - l + 1) - 1 = Depth - l + 1
        /\ Depth + 1 - l + 1 # 1
    BY DEF Depth
  <2>3. stack'[Depth + 1 - l + 1] = stack[Depth - l + 1]
    BY <2>2
  <2>. QED
    BY <2>1, <2>3 DEF FrameAt
<1>6. CodeAt(Depth)' = pc' /\ FrameAt(Depth)' = f
  <2>1. FrameAt(Depth)' = stack'[1]
    BY DEF FrameAt, Depth
  <2>2. 1 \in 1 .. (Len(stack) + 1)
    OBVIOUS
  <2>3. CodeAt(Depth)' = pc'
    BY DEF CodeAt
  <2>. QED
    BY <2>1, <2>3
<1>. QED
  BY <1>2, <1>3, <1>4, <1>5, <1>6

(* The levels below the top stay when the frames do.                         *)
LEMMA Step ==
  ASSUME Shape, stack' = stack
  PROVE  /\ stack' \in Seq(Frames) /\ Depth \in Nat /\ Depth' = Depth
         /\ \A l \in 0 .. (Depth - 1) : CodeAt(l)' = CodeAt(l)
         /\ \A l \in 1 .. Depth : FrameAt(l)' = FrameAt(l)
         /\ CodeAt(Depth)' = pc'
<1>1. stack \in Seq(Frames) /\ Depth \in Nat
  BY DEF Shape, Depth
<1>. QED
  BY <1>1 DEF Depth, CodeAt, FrameAt

(* trap can rewrite the frame it returns through: that moves the code of the *)
(* level below.                                                              *)
LEMMA Refit ==
  ASSUME Shape, stack # <<>>, NEW g \in Frames, stack' = <<g>> \o Tail(stack)
  PROVE  /\ stack' \in Seq(Frames) /\ Depth \in Nat \ {0} /\ Depth' = Depth
         /\ \A l \in 0 .. (Depth - 2) : CodeAt(l)' = CodeAt(l)
         /\ \A l \in 1 .. (Depth - 1) : FrameAt(l)' = FrameAt(l)
         /\ CodeAt(Depth)' = pc' /\ CodeAt(Depth - 1)' = g.pc /\ FrameAt(Depth)' = g
<1>1. stack \in Seq(Frames)
  BY DEF Shape
<1>2. /\ Tail(stack) \in Seq(Frames) /\ Len(stack) \in Nat \ {0}
      /\ Len(Tail(stack)) = Len(stack) - 1
      /\ \A j \in 1 .. (Len(stack) - 1) : Tail(stack)[j] = stack[j + 1]
  BY <1>1
<1>3. /\ stack' \in Seq(Frames) /\ Len(stack') = Len(stack)
      /\ \A j \in 1 .. Len(stack) : stack'[j] = IF j = 1 THEN g ELSE Tail(stack)[j - 1]
  BY <1>2
<1>4. \A j \in 1 .. Len(stack) : stack'[j] = IF j = 1 THEN g ELSE stack[j]
  <2>. SUFFICES ASSUME NEW j \in 1 .. Len(stack), j # 1
                PROVE  stack'[j] = stack[j]
    OBVIOUS
  <2>1. j - 1 \in 1 .. (Len(stack) - 1) /\ (j - 1) + 1 = j
    OBVIOUS
  <2>. QED
    OBVIOUS
<1>5. Depth \in Nat \ {0} /\ Depth' = Depth /\ Depth = Len(stack)
  BY DEF Depth
<1>6. ASSUME NEW l \in 0 .. (Depth - 2) PROVE CodeAt(l)' = CodeAt(l)
  <2>1. Depth - l \in 1 .. Len(stack) /\ Depth - l # 1 /\ l # Depth
    BY <1>5
  <2>. QED
    BY <1>5 DEF CodeAt
<1>7. ASSUME NEW l \in 1 .. (Depth - 1) PROVE FrameAt(l)' = FrameAt(l)
  <2>1. Depth - l + 1 \in 1 .. Len(stack) /\ Depth - l + 1 # 1
    BY <1>5
  <2>. QED
    BY <1>5 DEF FrameAt
<1>8. CodeAt(Depth)' = pc' /\ CodeAt(Depth - 1)' = g.pc /\ FrameAt(Depth)' = g
  <2>1. 1 \in 1 .. Len(stack) /\ Depth - (Depth - 1) = 1 /\ Depth - Depth + 1 = 1 /\ Depth - 1 # Depth
    BY <1>5
  <2>. QED
    BY <1>5 DEF CodeAt, FrameAt
<1>. QED
  BY <1>3, <1>5, <1>6, <1>7, <1>8

(* rte takes the top level off.                                              *)
LEMMA Pop ==
  ASSUME Shape, stack # <<>>, stack' = Tail(stack), pc' = Frame.pc
  PROVE  /\ stack' \in Seq(Frames) /\ Depth \in Nat \ {0} /\ Depth' = Depth - 1
         /\ \A l \in 0 .. (Depth - 1) : CodeAt(l)' = CodeAt(l)
         /\ \A l \in 1 .. (Depth - 1) : FrameAt(l)' = FrameAt(l)
<1>1. stack \in Seq(Frames)
  BY DEF Shape
<1>2. /\ stack' \in Seq(Frames) /\ Len(stack) \in Nat \ {0} /\ Frame = stack[1]
      /\ Len(stack') = Len(stack) - 1
      /\ \A j \in 1 .. (Len(stack) - 1) : stack'[j] = stack[j + 1]
  BY <1>1 DEF Frame
<1>3. Depth \in Nat \ {0} /\ Depth' = Depth - 1 /\ Depth = Len(stack)
  BY DEF Depth
<1>4. ASSUME NEW l \in 0 .. (Depth - 1) PROVE CodeAt(l)' = CodeAt(l)
  <2>1. CASE l = Depth - 1
    <3>1. CodeAt(l)' = pc' /\ Depth - l = 1 /\ l # Depth
      BY <1>3, <2>1 DEF CodeAt
    <3>. QED
      BY <1>2, <3>1 DEF CodeAt
  <2>2. CASE l # Depth - 1
    <3>1. Depth - 1 - l \in 1 .. (Len(stack) - 1) /\ (Depth - 1 - l) + 1 = Depth - l /\ l # Depth
      BY <1>3, <2>2
    <3>. QED
      BY <1>3, <2>2, <3>1 DEF CodeAt
  <2>. QED
    BY <2>1, <2>2
<1>5. ASSUME NEW l \in 1 .. (Depth - 1) PROVE FrameAt(l)' = FrameAt(l)
  <2>1. Depth - 1 - l + 1 \in 1 .. (Len(stack) - 1) /\ (Depth - 1 - l + 1) + 1 = Depth - l + 1
    BY <1>3
  <2>. QED
    BY <1>3 DEF FrameAt
<1>. QED
  BY <1>2, <1>3, <1>4, <1>5

(* The levels of a state of that shape.                                      *)
LEMMA Layered ==
  ASSUME Shape
  PROVE  /\ Depth \in Nat /\ CodeAt(Depth) = pc /\ (stack = <<>> <=> Depth = 0)
         /\ \A l \in 0 .. Depth : CodeAt(l) \in Codes
         /\ \A l \in 1 .. Depth : FrameAt(l) \in Frames /\ FrameAt(l).pc = CodeAt(l - 1)
         /\ stack # <<>> => Frame = FrameAt(Depth) /\ Frame \in Frames /\ Frame.pc = CodeAt(Depth - 1)
<1>1. stack \in Seq(Frames) /\ pc \in Codes /\ Len(stack) \in Nat
  BY DEF Shape
<1>2. ASSUME NEW l \in 1 .. Depth
      PROVE  FrameAt(l) \in Frames /\ FrameAt(l).pc = CodeAt(l - 1)
  <2>1. Depth - l + 1 \in 1 .. Len(stack) /\ Depth - l + 1 = Depth - (l - 1) /\ l - 1 # Depth
    BY DEF Depth
  <2>. QED
    BY <1>1, <2>1 DEF FrameAt, CodeAt
<1>3. ASSUME NEW l \in 0 .. Depth PROVE CodeAt(l) \in Codes
  <2>1. CASE l = Depth
    BY <1>1, <2>1 DEF CodeAt
  <2>2. CASE l # Depth
    <3>1. Depth - l \in 1 .. Len(stack)
      BY <2>2 DEF Depth
    <3>2. stack[Depth - l] \in Frames
      BY <1>1, <3>1
    <3>. QED
      BY <2>2, <3>2 DEF CodeAt, Frames
  <2>. QED
    BY <2>1, <2>2
<1>4. Depth \in Nat /\ CodeAt(Depth) = pc /\ (stack = <<>> <=> Depth = 0)
  BY DEF Depth, CodeAt
<1>5. stack # <<>> => Frame = FrameAt(Depth)
  BY <1>4 DEF Frame, FrameAt
<1>. QED
  BY <1>2, <1>3, <1>4, <1>5

(* The kernel works for the process at level 1 only.                         *)
LEMMA KernelLevel ==
  ASSUME Shape, NEW l \in 1 .. Depth, CodeAt(l) \in {"kernel", "copy", "error"}
  PROVE  l = 1
<1>1. Layer(CodeAt(l), FrameAt(l)) /\ FrameAt(l) \in Frames /\ FrameAt(l).pc = CodeAt(l - 1)
  BY Layered DEF Shape
<1>2. FrameAt(l).pc = "user"
  BY <1>1 DEF Layer, Frames
<1>3. l # 1 => Layer(CodeAt(l - 1), FrameAt(l - 1)) /\ FrameAt(l - 1) \in Frames
  <2>1. Depth \in Nat /\ (l # 1 => l - 1 \in 1 .. Depth)
    BY Layered
  <2>. QED
    BY Layered DEF Shape
<1>. QED
  BY <1>1, <1>3 DEF Layer, Frames

(* Whether a level is armed depends on the code up to it.                    *)
LEMMA ArmedKept ==
  ASSUME NEW k \in Nat,
         k >= 1 => (CodeAt(1) \in {"copy", "error"} <=> CodeAt(1)' \in {"copy", "error"}),
         \A j \in 2 .. k : CodeAt(j) = "uvm" <=> CodeAt(j)' = "uvm"
  PROVE  Armed(k) <=> Armed(k)'
  BY DEF Armed

(* One level more: armed as below, unless it is uvm_fault.                   *)
LEMMA ArmedNext ==
  ASSUME NEW k \in Nat \ {0}
  PROVE  /\ Armed(k) <=> IF k = 1 THEN CodeAt(1) \in {"copy", "error"}
                         ELSE Armed(k - 1) /\ CodeAt(k) # "uvm"
         /\ Armed(k)' <=> IF k = 1 THEN CodeAt(1)' \in {"copy", "error"}
                          ELSE Armed(k - 1)' /\ CodeAt(k)' # "uvm"
<1>1. CASE k = 1
  BY DEF Armed
<1>2. CASE k # 1
  <2>1. k - 1 >= 1 /\ k >= 1 /\ k \in 2 .. k
    BY <1>2
  <2>2. \A j : j \in 2 .. k <=> j \in 2 .. (k - 1) \/ j = k
    BY <1>2
  <2>. QED
    BY DEF Armed
<1>. QED
  BY <1>1, <1>2

(* An exception disarms nothing and arms nothing.                            *)
LEMMA PushKeeps ==
  ASSUME Shape, NEW f \in Frames, f.pc = pc, stack' = <<f>> \o stack,
         pc' \in Codes \ {"copy", "error", "uvm"}, ipl' \in 0 .. 6,
         UNCHANGED onfault, Layer(pc', f), UNCHANGED panic, Guarded
  PROVE  Shape' /\ Guarded'
<1>1. /\ stack' \in Seq(Frames) /\ Depth \in Nat /\ Depth' = Depth + 1
      /\ \A l \in 0 .. Depth : CodeAt(l)' = CodeAt(l)
      /\ \A l \in 1 .. Depth : FrameAt(l)' = FrameAt(l)
      /\ CodeAt(Depth)' = pc' /\ FrameAt(Depth)' = f
  BY Push
<1>2. ASSUME NEW l \in 1 .. Depth' PROVE Layer(CodeAt(l), FrameAt(l))'
  <2>1. CASE l = Depth'
    BY <1>1, <2>1
  <2>2. CASE l # Depth'
    <3>1. l \in 1 .. Depth /\ l \in 0 .. Depth
      BY <1>1, <2>2
    <3>2. Layer(CodeAt(l), FrameAt(l))
      BY <3>1 DEF Shape
    <3>. QED
      BY <1>1, <3>2
  <2>. QED
    BY <2>1, <2>2
<1>3. Shape'
  BY <1>1 DEF Shape
<1>4. ASSUME NEW k \in 0 .. Depth PROVE Armed(k) <=> Armed(k)'
  <2>1. k \in Nat /\ (k >= 1 => 1 \in 0 .. Depth) /\ \A j \in 2 .. k : j \in 0 .. Depth
    BY <1>1
  <2>. QED
    BY <1>1, <2>1, ArmedKept
<1>5. Armed(Depth)' <=> Armed(Depth)
  <2>. SUFFICES ASSUME NEW k \in Nat \ {0}, k = Depth' PROVE Armed(k)' <=> Armed(Depth)
    BY <1>1
  <2>1. /\ k - 1 = Depth /\ Depth \in 0 .. Depth /\ CodeAt(k)' = pc'
        /\ k = 1 => ~Armed(Depth)
    BY <1>1 DEF Armed
  <2>2. Armed(k)' <=> IF k = 1 THEN CodeAt(1)' \in {"copy", "error"}
                      ELSE Armed(k - 1)' /\ CodeAt(k)' # "uvm"
    BY ArmedNext
  <2>. QED
    BY <1>4, <2>1, <2>2
<1>6. Guarded'
  <2>. SUFFICES ASSUME Running'
                PROVE  /\ onfault' <=> Armed(Depth)'
                       /\ \A l \in 1 .. Depth' :
                            CodeAt(l)' = "uvm" => (FrameAt(l).onfault' <=> Armed(l - 1)')
    BY DEF Guarded
  <2>1. Running
    BY DEF Running
  <2>2. onfault' <=> Armed(Depth)'
    BY <1>5, <2>1 DEF Guarded
  <2>3. ASSUME NEW l \in 1 .. Depth', CodeAt(l)' = "uvm"
        PROVE  FrameAt(l).onfault' <=> Armed(l - 1)'
    <3>1. l \in 1 .. Depth /\ l \in 0 .. Depth /\ l - 1 \in 0 .. Depth
      <4>1. l # Depth'
        BY <1>1, <2>3
      <4>. QED
        BY <1>1, <4>1
    <3>2. FrameAt(l).onfault <=> Armed(l - 1)
      BY <1>1, <2>1, <2>3 DEF Guarded
    <3>3. FrameAt(l)' = FrameAt(l) /\ (Armed(l - 1) <=> Armed(l - 1)')
      BY <1>1, <1>4, <3>1
    <3>. QED
      BY <3>2, <3>3
  <2>. QED
    BY <2>2, <2>3
<1>. QED
  BY <1>3, <1>6

(* A step at the top level keeps the shape if the frame fits.                *)
LEMMA StepKeeps ==
  ASSUME Shape, stack # <<>>, UNCHANGED stack,
         pc' \in Codes, ipl' \in 0 .. 6, onfault' \in BOOLEAN, Layer(pc', Frame)
  PROVE  Shape'
<1>1. /\ stack' \in Seq(Frames) /\ Depth \in Nat /\ Depth' = Depth
      /\ \A l \in 0 .. (Depth - 1) : CodeAt(l)' = CodeAt(l)
      /\ \A l \in 1 .. Depth : FrameAt(l)' = FrameAt(l)
      /\ CodeAt(Depth)' = pc' /\ Depth # 0 /\ Frame = FrameAt(Depth)
  BY Step, Layered
<1>2. ASSUME NEW l \in 1 .. Depth' PROVE Layer(CodeAt(l), FrameAt(l))'
  <2>1. CASE l = Depth'
    <3>1. CodeAt(l)' = pc' /\ FrameAt(l)' = Frame
      BY <1>1, <2>1
    <3>. QED
      BY <3>1
  <2>2. CASE l # Depth'
    <3>1. l \in 1 .. Depth /\ l \in 0 .. (Depth - 1)
      BY <1>1, <2>2
    <3>2. Layer(CodeAt(l), FrameAt(l))
      BY <3>1 DEF Shape
    <3>. QED
      BY <1>1, <3>2
  <2>. QED
    BY <2>1, <2>2
<1>. QED
  BY <1>1 DEF Shape

(* The kernel arms when it begins to copy, and disarms when it ends; nobody  *)
(* else touches pcb_onfault outside trap.                                    *)
LEMMA StepArms ==
  ASSUME Shape, stack # <<>>, UNCHANGED stack, Guarded, Running,
         pc # "uvm", pc' # "uvm",
         pc' \in {"copy", "error"} => Depth = 1,
         \/ UNCHANGED onfault /\ (pc \in {"copy", "error"} <=> pc' \in {"copy", "error"})
         \/ pc \in {"kernel", "copy", "error"} /\ (onfault' <=> pc' \in {"copy", "error"})
  PROVE  Guarded'
<1>1. /\ Depth \in Nat /\ Depth' = Depth
      /\ \A l \in 0 .. (Depth - 1) : CodeAt(l)' = CodeAt(l)
      /\ \A l \in 1 .. Depth : FrameAt(l)' = FrameAt(l)
      /\ CodeAt(Depth)' = pc' /\ CodeAt(Depth) = pc /\ Depth # 0 /\ Frame = FrameAt(Depth)
  BY Step, Layered
<1>2. ASSUME NEW k \in 0 .. (Depth - 1) PROVE Armed(k) <=> Armed(k)'
  <2>1. k \in Nat /\ (k >= 1 => 1 \in 0 .. (Depth - 1)) /\ \A j \in 2 .. k : j \in 0 .. (Depth - 1)
    BY <1>1
  <2>. QED
    BY <1>1, ArmedKept
<1>3. Armed(Depth)' <=> IF Depth = 1 THEN pc' \in {"copy", "error"} ELSE Armed(Depth)
  <2>. SUFFICES ASSUME NEW k \in Nat \ {0}, k = Depth
                PROVE  Armed(k)' <=> IF k = 1 THEN pc' \in {"copy", "error"} ELSE Armed(k)
    BY <1>1
  <2>1. CodeAt(k)' = pc' /\ CodeAt(k) = pc /\ k - 1 \in 0 .. (Depth - 1)
    BY <1>1
  <2>2. Armed(k - 1) <=> Armed(k - 1)'
    BY <1>2
  <2>. QED
    BY <2>1, <2>2, ArmedNext
<1>4. Armed(Depth) <=> IF Depth = 1 THEN pc \in {"copy", "error"} ELSE Armed(Depth)
  BY <1>1, ArmedNext
<1>5. pc \in {"kernel", "copy", "error"} => Depth = 1
  BY <1>1, KernelLevel
<1>6. (onfault' <=> Armed(Depth)') /\ (onfault <=> Armed(Depth))
  BY <1>3, <1>4, <1>5 DEF Guarded
<1>7. ASSUME NEW l \in 1 .. Depth', CodeAt(l)' = "uvm"
      PROVE  FrameAt(l).onfault' <=> Armed(l - 1)'
  <2>1. l \in 1 .. Depth /\ l \in 0 .. (Depth - 1) /\ l - 1 \in 0 .. (Depth - 1)
    <3>1. l # Depth
      BY <1>1, <1>7
    <3>. QED
      BY <1>1, <3>1
  <2>2. FrameAt(l).onfault <=> Armed(l - 1)
    BY <1>1, <1>7 DEF Guarded
  <2>3. FrameAt(l)' = FrameAt(l) /\ (Armed(l - 1) <=> Armed(l - 1)')
    BY <1>1, <1>2
  <2>. QED
    BY <2>2, <2>3
<1>. QED
  BY <1>6, <1>7 DEF Guarded

(* A return leaves pcb_onfault to the level below.                           *)
LEMMA PopKeeps ==
  ASSUME Shape, stack # <<>>, stack' = Tail(stack), pc' = Frame.pc, ipl' = Frame.ipl,
         UNCHANGED onfault, Guarded, Running, pc \notin {"copy", "error", "uvm"}
  PROVE  Shape' /\ Guarded'
<1>1. /\ stack' \in Seq(Frames) /\ Depth \in Nat \ {0} /\ Depth' = Depth - 1
      /\ \A l \in 0 .. (Depth - 1) : CodeAt(l)' = CodeAt(l)
      /\ \A l \in 1 .. (Depth - 1) : FrameAt(l)' = FrameAt(l)
  BY Pop
<1>2. pc' \in Codes /\ ipl' \in 0 .. 6 /\ CodeAt(Depth) = pc
  BY Layered DEF Frames
<1>3. \A l \in 1 .. Depth' : Layer(CodeAt(l), FrameAt(l))'
  <2>. SUFFICES ASSUME NEW l \in 1 .. Depth' PROVE Layer(CodeAt(l), FrameAt(l))'
    OBVIOUS
  <2>1. l \in 1 .. Depth /\ l \in 0 .. (Depth - 1) /\ l \in 1 .. (Depth - 1)
    BY <1>1
  <2>2. Layer(CodeAt(l), FrameAt(l))
    BY <2>1 DEF Shape
  <2>. QED
    BY <1>1, <2>2
<1>4. Shape'
  BY <1>1, <1>2 DEF Shape
<1>5. ASSUME NEW k \in 0 .. (Depth - 1) PROVE Armed(k) <=> Armed(k)'
  <2>1. k \in Nat /\ (k >= 1 => 1 \in 0 .. (Depth - 1)) /\ \A j \in 2 .. k : j \in 0 .. (Depth - 1)
    BY <1>1
  <2>. QED
    BY <1>1, ArmedKept
<1>6. Armed(Depth)' <=> Armed(Depth)
  <2>. SUFFICES ASSUME NEW k \in Nat, k = Depth' PROVE Armed(k)' <=> Armed(Depth)
    BY <1>1
  <2>1. k \in 0 .. (Depth - 1) /\ Depth \in Nat \ {0} /\ k = Depth - 1 /\ (k = 0 => ~Armed(k))
    BY <1>1 DEF Armed
  <2>2. Armed(Depth) <=> IF Depth = 1 THEN CodeAt(1) \in {"copy", "error"}
                         ELSE Armed(Depth - 1) /\ CodeAt(Depth) # "uvm"
    BY <2>1, ArmedNext
  <2>. QED
    BY <1>2, <1>5, <2>1, <2>2
<1>7. ASSUME NEW l \in 1 .. Depth', CodeAt(l)' = "uvm"
      PROVE  FrameAt(l).onfault' <=> Armed(l - 1)'
  <2>1. l \in 1 .. Depth /\ l \in 0 .. (Depth - 1) /\ l - 1 \in 0 .. (Depth - 1) /\ l \in 1 .. (Depth - 1)
    BY <1>1
  <2>2. FrameAt(l).onfault <=> Armed(l - 1)
    BY <1>1, <1>7 DEF Guarded
  <2>3. FrameAt(l)' = FrameAt(l) /\ (Armed(l - 1) <=> Armed(l - 1)')
    BY <1>1, <1>5
  <2>. QED
    BY <2>2, <2>3
<1>8. Guarded'
  BY <1>6, <1>7 DEF Guarded
<1>. QED
  BY <1>4, <1>8

(* trap disarms when it calls uvm_fault, keeping what it found in the frame, *)
(* and arms again when it returns.                                           *)
LEMMA RefitKeeps ==
  ASSUME Shape, stack # <<>>, NEW g \in Frames, stack' = <<g>> \o Tail(stack),
         g.pc = Frame.pc \/ (Frame.pc = "copy" /\ g.pc = "error"),
         pc' \in {"uvm", "rei", "userret"}, ipl' \in 0 .. 6, onfault' \in BOOLEAN,
         Layer(pc', g), Guarded, Running,
         pc' = "uvm" => onfault' = FALSE /\ (g.onfault <=> Armed(Depth - 1)),
         pc' # "uvm" => (onfault' <=> Armed(Depth - 1))
  PROVE  Shape' /\ Guarded'
<1>1. /\ stack' \in Seq(Frames) /\ Depth \in Nat \ {0} /\ Depth' = Depth
      /\ \A l \in 0 .. (Depth - 2) : CodeAt(l)' = CodeAt(l)
      /\ \A l \in 1 .. (Depth - 1) : FrameAt(l)' = FrameAt(l)
      /\ CodeAt(Depth)' = pc' /\ CodeAt(Depth - 1)' = g.pc /\ FrameAt(Depth)' = g
  BY Refit
<1>2. /\ Frame.pc = CodeAt(Depth - 1)
      /\ \A l \in 1 .. Depth : FrameAt(l) \in Frames /\ Layer(CodeAt(l), FrameAt(l))
  BY Layered DEF Shape
<1>3. \A l \in 0 .. (Depth - 1) :
        CodeAt(l)' = CodeAt(l) \/ (CodeAt(l) = "copy" /\ CodeAt(l)' = "error")
  <2>. SUFFICES ASSUME NEW l \in 0 .. (Depth - 1)
                PROVE  CodeAt(l)' = CodeAt(l) \/ (CodeAt(l) = "copy" /\ CodeAt(l)' = "error")
    OBVIOUS
  <2>1. CASE l = Depth - 1
    BY <1>1, <1>2
  <2>2. CASE l # Depth - 1
    <3>1. l \in 0 .. (Depth - 2)
      BY <1>1, <2>2
    <3>. QED
      BY <1>1, <3>1
  <2>. QED
    BY <2>1, <2>2
<1>4. CodeAt(0)' = "user"
  BY <1>1, <1>3 DEF Shape
<1>5. \A l \in 1 .. Depth' : Layer(CodeAt(l), FrameAt(l))'
  <2>. SUFFICES ASSUME NEW l \in 1 .. Depth' PROVE Layer(CodeAt(l), FrameAt(l))'
    OBVIOUS
  <2>1. CASE l = Depth
    BY <1>1, <2>1
  <2>2. CASE l # Depth
    <3>1. l \in 1 .. Depth /\ l \in 0 .. (Depth - 1) /\ l \in 1 .. (Depth - 1)
      BY <1>1, <2>2
    <3>2. Layer(CodeAt(l), FrameAt(l)) /\ FrameAt(l)' = FrameAt(l) /\ FrameAt(l) \in Frames
      BY <1>1, <1>2, <3>1
    <3>3. CASE CodeAt(l)' = CodeAt(l)
      BY <3>2, <3>3
    <3>4. CASE CodeAt(l) = "copy" /\ CodeAt(l)' = "error"
      BY <3>2, <3>4 DEF Layer
    <3>. QED
      BY <1>3, <3>1, <3>3, <3>4
  <2>. QED
    BY <2>1, <2>2
<1>6. Shape'
  BY <1>4, <1>5 DEF Shape, Codes
<1>7. ASSUME NEW k \in 0 .. (Depth - 1) PROVE Armed(k) <=> Armed(k)'
  <2>1. k \in Nat /\ (k >= 1 => 1 \in 0 .. (Depth - 1)) /\ \A j \in 2 .. k : j \in 0 .. (Depth - 1)
    BY <1>1
  <2>. QED
    BY <1>3, <2>1, ArmedKept
<1>8. Armed(Depth)' <=> pc' # "uvm" /\ Armed(Depth - 1)
  <2>. SUFFICES ASSUME NEW k \in Nat \ {0}, k = Depth
                PROVE  Armed(k)' <=> pc' # "uvm" /\ Armed(k - 1)
    BY <1>1
  <2>1. CodeAt(k)' = pc' /\ k - 1 \in 0 .. (Depth - 1) /\ (k = 1 => ~Armed(k - 1))
    BY <1>1 DEF Armed
  <2>2. Armed(k - 1) <=> Armed(k - 1)'
    BY <1>7
  <2>. QED
    BY <2>1, <2>2, ArmedNext
<1>9. onfault' <=> Armed(Depth)'
  BY <1>8
<1>10. ASSUME NEW l \in 1 .. Depth', CodeAt(l)' = "uvm"
       PROVE  FrameAt(l).onfault' <=> Armed(l - 1)'
  <2>1. CASE l = Depth
    <3>1. pc' = "uvm" /\ FrameAt(l)' = g /\ l - 1 \in 0 .. (Depth - 1)
      BY <1>1, <1>10, <2>1
    <3>2. (g.onfault <=> Armed(l - 1)) /\ (Armed(l - 1) <=> Armed(l - 1)')
      BY <1>7, <2>1, <3>1
    <3>. QED
      BY <3>1, <3>2
  <2>2. CASE l # Depth
    <3>1. l \in 1 .. Depth /\ l \in 0 .. (Depth - 1) /\ l - 1 \in 0 .. (Depth - 1) /\ l \in 1 .. (Depth - 1)
      BY <1>1, <2>2
    <3>2. FrameAt(l).onfault <=> Armed(l - 1)
      BY <1>3, <1>10, <3>1 DEF Guarded
    <3>3. FrameAt(l)' = FrameAt(l) /\ (Armed(l - 1) <=> Armed(l - 1)')
      BY <1>1, <1>7, <3>1
    <3>. QED
      BY <3>2, <3>3
  <2>. QED
    BY <2>1, <2>2
<1>11. Guarded'
  BY <1>9, <1>10 DEF Guarded
<1>. QED
  BY <1>6, <1>11

(* The frame on top, written apart.                                          *)
LEMMA Same ==
  ASSUME Shape, stack # <<>>
  PROVE  stack = <<Frame>> \o Tail(stack)
<1>1. stack \in Seq(Frames)
  BY DEF Shape
<1>. QED
  BY <1>1 DEF Frame

(* Steps of the timer, and panics: after a panic nothing is asked of         *)
(* pcb_onfault.                                                              *)
LEMMA StillKeeps ==
  ASSUME Shape, Guarded, UNCHANGED <<pc, stack>>, ipl' \in 0 .. 6, onfault' \in BOOLEAN,
         ~Running' \/ UNCHANGED <<onfault, panic>>
  PROVE  Shape' /\ Guarded'
<1>1. Shape'
  BY DEF Shape, CodeAt, FrameAt, Depth
<1>2. Guarded'
  BY DEF Guarded, Running, Armed, CodeAt, FrameAt, Depth
<1>. QED
  BY <1>1, <1>2

(* What the top level can rely on: trap finds pcb_onfault set, and uvm_fault *)
(* finds it in its frame, exactly when the levels below are armed; and then  *)
(* the code it interrupted is neither the process, nor the kernel outside a  *)
(* copy, nor uvm_fault.                                                      *)
LEMMA TopFrame ==
  ASSUME Shape, Guarded, Running
  PROVE  /\ pc # "user" => stack # <<>>
         /\ stack # <<>> =>
              /\ pc # "user" /\ Frame \in Frames /\ Layer(pc, Frame)
              /\ pc = "trap" => (onfault <=> Armed(Depth - 1))
              /\ pc = "uvm" => (Frame.onfault <=> Armed(Depth - 1))
              /\ Armed(Depth - 1) => Frame.pc \notin {"user", "kernel", "uvm"}
              /\ Frame.pc = "copy" => Armed(Depth - 1)
         /\ pc \in {"kernel", "copy", "error"} => Depth = 1
<1>1. /\ Depth \in Nat /\ CodeAt(Depth) = pc /\ (stack = <<>> <=> Depth = 0) /\ CodeAt(0) = "user"
      /\ stack # <<>> => Frame = FrameAt(Depth) /\ Frame \in Frames /\ Frame.pc = CodeAt(Depth - 1)
  BY Layered DEF Shape
<1>2. pc # "user" => stack # <<>>
  BY <1>1
<1>3. stack # <<>> => Layer(pc, Frame)
  BY <1>1 DEF Shape
<1>4. stack # <<>> => pc # "user"
  BY <1>1, <1>3 DEF Layer, Frames
<1>5. pc \in {"kernel", "copy", "error"} => Depth = 1
  <2>. SUFFICES ASSUME pc \in {"kernel", "copy", "error"} PROVE Depth = 1
    OBVIOUS
  <2>1. Depth \in 1 .. Depth
    BY <1>1
  <2>. QED
    BY <1>1, KernelLevel
<1>6. ASSUME stack # <<>>, pc = "trap" PROVE onfault <=> Armed(Depth - 1)
  <2>1. Armed(Depth) <=> Armed(Depth - 1)
    <3>1. Depth = 1 => ~Armed(Depth - 1)
      BY DEF Armed
    <3>. QED
      BY <1>1, <1>6, <3>1, ArmedNext
  <2>. QED
    BY <2>1 DEF Guarded
<1>7. ASSUME stack # <<>>, pc = "uvm" PROVE Frame.onfault <=> Armed(Depth - 1)
  BY <1>1, <1>7 DEF Guarded
<1>8. ASSUME stack # <<>>, Armed(Depth - 1) PROVE Frame.pc \notin {"user", "kernel", "uvm"}
  <2>1. Depth - 1 \in 1 .. Depth /\ CodeAt(1) \in {"copy", "error"} /\ CodeAt(Depth - 1) = Frame.pc
    BY <1>1, <1>8 DEF Armed
  <2>2. Depth - 1 = 1 => Frame.pc \in {"copy", "error"}
    BY <2>1
  <2>3. Depth - 1 # 1 => Frame.pc # "uvm"
    BY <1>1, <1>8 DEF Armed
  <2>4. Frame.pc = "kernel" => Depth - 1 = 1
    BY <2>1, KernelLevel
  <2>5. Frame.pc # "user"
    <3>1. Layer(CodeAt(Depth - 1), FrameAt(Depth - 1)) /\ FrameAt(Depth - 1) \in Frames
      BY <2>1, Layered DEF Shape
    <3>. QED
      BY <2>1, <3>1 DEF Layer, Frames
  <2>. QED
    BY <2>2, <2>3, <2>4, <2>5
<1>9. ASSUME stack # <<>>, Frame.pc = "copy" PROVE Armed(Depth - 1)
  <2>1. Depth - 1 \in 1 .. Depth
    <3>1. Depth # 1
      BY <1>1, <1>9
    <3>. QED
      BY <1>1, <1>9
  <2>2. Depth - 1 = 1
    BY <1>1, <1>9, KernelLevel
  <2>. QED
    BY <1>1, <1>9, <2>2 DEF Armed
<1>. QED
  BY <1>1, <1>3, <1>4, <1>5, <1>6, <1>7, <1>8, <1>9

(* The frame of an exception.                                                *)
NewFrame(type, space, page0) ==
  [pc |-> pc, ipl |-> ipl, type |-> type, space |-> space, page0 |-> page0, onfault |-> FALSE]

(* Every exception whose handler fits its frame.                             *)
LEMMA ExceptionKeeps ==
  ASSUME ExcInv, NEW type \in UserTypes \cup {"TRAP0", "INTR"}, NEW space \in {"user", "kernel"},
         NEW page0 \in BOOLEAN, NEW to \in Codes \ {"copy", "error", "uvm"},
         Exception(type, space, page0, to), Layer(to, NewFrame(type, space, page0)),
         ipl' \in 0 .. 6, UNCHANGED <<onfault, panic>>
  PROVE  ExcInv'
<1>. DEFINE f == NewFrame(type, space, page0)
<1>1. f \in Frames /\ f.pc = pc
  BY DEF ExcInv, Shape, Frames, NewFrame
<1>2. stack' = <<f>> \o stack /\ pc' = to
  BY DEF Exception, NewFrame
<1>. HIDE DEF f
<1>3. Shape' /\ Guarded'
  BY <1>1, <1>2, PushKeeps DEF ExcInv, f
<1>. QED
  BY <1>3 DEF ExcInv, PanicsForKernel, Running

(* A process can take every fault.                                           *)
LEMMA UserExceptionKeeps == ExcInv /\ UserException => ExcInv'
<1>. SUFFICES ASSUME ExcInv, UserException PROVE ExcInv'
  OBVIOUS
<1>1. PICK t \in UserTypes : Exception(t, "user", FALSE, "trap")
  BY DEF UserException
<1>2. Layer("trap", NewFrame(t, "user", FALSE))
  BY DEF UserException, Layer, Faulted, NewFrame, UserTypes
<1>. QED
  BY <1>1, <1>2, ExceptionKeeps DEF UserException, ExcInv, Shape, Codes

(* The faults of the kernel; this is where HandlersFault matters: a bus      *)
(* error above a handler would find the pcb_onfault of a copy further down.  *)
LEMMA KernelExceptionKeeps == HandlersFault = FALSE /\ ExcInv /\ KernelException => ExcInv'
<1>. SUFFICES ASSUME HandlersFault = FALSE, ExcInv, KernelException PROVE ExcInv'
  OBVIOUS
<1>. USE DEF KernelException
<1>0. ipl' \in 0 .. 6 /\ UNCHANGED <<onfault, panic>> /\ "trap" \in Codes \ {"copy", "error", "uvm"}
  BY DEF ExcInv, Shape, Codes
<1>1. CASE pc \in {"kernel", "copy", "uvm"}
           /\ \E page0 \in BOOLEAN : Exception("MMUFLT", "kernel", page0, "trap")
  <2>1. PICK page0 \in BOOLEAN : Exception("MMUFLT", "kernel", page0, "trap")
    BY <1>1
  <2>2. Layer("trap", NewFrame("MMUFLT", "kernel", page0)) /\ "MMUFLT" \in UserTypes
    BY DEF Layer, Faulted, NewFrame, UserTypes
  <2>. QED
    BY <1>0, <2>1, <2>2, ExceptionKeeps
<1>2. CASE pc = "copy" /\ \E page0 \in BOOLEAN : Exception("MMUFLT", "user", page0, "trap")
  <2>1. PICK page0 \in BOOLEAN : Exception("MMUFLT", "user", page0, "trap")
    BY <1>2
  <2>2. Layer("trap", NewFrame("MMUFLT", "user", page0)) /\ "MMUFLT" \in UserTypes
    BY <1>2 DEF Layer, Faulted, NewFrame, UserTypes
  <2>. QED
    BY <1>0, <2>1, <2>2, ExceptionKeeps
<1>3. CASE pc \in {"kernel", "copy"} /\ Exception("BUSERR", "kernel", FALSE, "trap")
  <2>1. Layer("trap", NewFrame("BUSERR", "kernel", FALSE)) /\ "BUSERR" \in UserTypes
    BY <1>3 DEF Layer, Faulted, NewFrame, UserTypes
  <2>. QED
    BY <1>0, <1>3, <2>1, ExceptionKeeps
<1>4. CASE pc = "kernel" /\ Exception("COPERR", "kernel", FALSE, "trap")
  <2>1. Layer("trap", NewFrame("COPERR", "kernel", FALSE)) /\ "COPERR" \in UserTypes
    BY <1>4 DEF Layer, Faulted, NewFrame, UserTypes
  <2>. QED
    BY <1>0, <1>4, <2>1, ExceptionKeeps
<1>. QED
  BY <1>1, <1>2, <1>3, <1>4

(* A system call puts the kernel at level 1.                                 *)
LEMMA SyscallKeeps == ExcInv /\ Syscall => ExcInv'
<1>. SUFFICES ASSUME ExcInv, Syscall PROVE ExcInv'
  OBVIOUS
<1>1. Layer("kernel", NewFrame("TRAP0", "user", FALSE))
  BY DEF Syscall, Layer, NewFrame, UserTypes
<1>. QED
  BY <1>1, ExceptionKeeps DEF Syscall, ExcInv, Shape, Codes

(* An interrupt can come in at every level.                                  *)
LEMMA InterruptKeeps ==
  ASSUME ExcInv, NEW l \in 1 .. 6, Interrupt(l)
  PROVE  ExcInv'
<1>1. Layer("handler", NewFrame("INTR", "kernel", FALSE))
  BY DEF Layer, NewFrame, UserTypes
<1>2. Exception("INTR", "kernel", FALSE, "handler") /\ ipl' = l /\ UNCHANGED <<onfault, panic>>
  BY DEF Interrupt
<1>4. ipl' \in 0 .. 6
  BY <1>2
<1>3. "handler" \in Codes \ {"copy", "error", "uvm"}
  BY DEF Codes
<1>. QED
  BY <1>1, <1>2, <1>3, <1>4, ExceptionKeeps

(* Steps that leave the frames as they are.                                  *)
LEMMA CodeKeeps ==
  ASSUME ExcInv, Running, pc \notin {"user", "uvm"}, UNCHANGED <<stack, panic>>,
         pc' \in Codes \ {"uvm"}, ipl' \in 0 .. 6, onfault' \in BOOLEAN, Layer(pc', Frame),
         pc' \in {"copy", "error"} => pc \in {"kernel", "copy", "error"},
         \/ UNCHANGED onfault /\ (pc \in {"copy", "error"} <=> pc' \in {"copy", "error"})
         \/ pc \in {"kernel", "copy", "error"} /\ (onfault' <=> pc' \in {"copy", "error"})
  PROVE  ExcInv'
<1>1. stack # <<>> /\ (pc \in {"kernel", "copy", "error"} => Depth = 1)
  BY TopFrame DEF ExcInv
<1>2. Shape'
  BY <1>1, StepKeeps DEF ExcInv
<1>3. Guarded'
  BY <1>1, StepArms DEF ExcInv
<1>. QED
  BY <1>2, <1>3 DEF ExcInv, PanicsForKernel, Running

(* What the kernel does besides faulting.                                    *)
LEMMA KernelKeeps == ExcInv /\ (Kernel \/ Splx) => ExcInv'
<1>. SUFFICES ASSUME ExcInv, Kernel \/ Splx PROVE ExcInv'
  OBVIOUS
<1>1. /\ pc = "kernel" /\ Running /\ UNCHANGED <<stack, panic>> /\ ipl' \in 0 .. 6
      /\ \/ UNCHANGED <<pc, onfault>>
         \/ pc' = "copy" /\ onfault' = TRUE
  BY DEF Kernel, Splx, ExcInv, Shape
<1>2. Frame \in Frames /\ Layer(pc, Frame)
  BY <1>1, TopFrame DEF ExcInv
<1>3. Layer(pc', Frame) /\ onfault' \in BOOLEAN /\ pc' \in Codes
  BY <1>1, <1>2 DEF Layer, Codes, ExcInv, Shape
<1>. QED
  BY <1>1, <1>3, CodeKeeps

(* A copy ends, also at its error label.                                     *)
LEMMA CopyDoneKeeps == ExcInv /\ CopyDone => ExcInv'
<1>. SUFFICES ASSUME ExcInv, CopyDone PROVE ExcInv'
  OBVIOUS
<1>1. Running /\ pc \in {"copy", "error"} /\ pc' = "kernel" /\ onfault' = FALSE
      /\ UNCHANGED <<stack, panic>> /\ ipl' \in 0 .. 6
  BY DEF CopyDone, ExcInv, Shape
<1>2. Frame \in Frames /\ Layer(pc, Frame)
  BY <1>1, TopFrame DEF ExcInv
<1>3. Layer(pc', Frame) /\ pc' \in Codes
  BY <1>1, <1>2 DEF Layer, Codes
<1>. QED
  BY <1>1, <1>3, CodeKeeps

(* The ways out of an exception, before rte.                                 *)
LEMMA ReturnKeeps == ExcInv /\ (SyscallDone \/ Userret \/ Rei \/ AstReturns \/ Handler) => ExcInv'
<1>. SUFFICES ASSUME ExcInv, SyscallDone \/ Userret \/ Rei \/ AstReturns \/ Handler PROVE ExcInv'
  OBVIOUS
<1>0. UNCHANGED <<stack, onfault, panic>> /\ Running /\ ipl' \in 0 .. 6
      /\ pc \in {"kernel", "userret", "rei", "astret", "handler"}
  <2>1. ipl \in 0 .. 6
    BY DEF ExcInv, Shape
  <2>2. CASE SyscallDone
    BY <2>2 DEF SyscallDone
  <2>3. CASE Userret
    BY <2>1, <2>3 DEF Userret, Return
  <2>4. CASE Rei
    BY <2>1, <2>4 DEF Rei
  <2>5. CASE AstReturns
    BY <2>1, <2>5 DEF AstReturns
  <2>6. CASE Handler
    BY <2>1, <2>6 DEF Handler, Return
  <2>. QED
    BY <2>2, <2>3, <2>4, <2>5, <2>6
<1>1. Frame \in Frames /\ Layer(pc, Frame)
  BY <1>0, TopFrame DEF ExcInv
<1>2. /\ pc' \in {"rei", "ast", "rte"}
      /\ pc' = "ast" => Frame.pc = "user"
  BY <1>1 DEF SyscallDone, Userret, Rei, AstReturns, Handler, Return, AstDue, FromUser,
     Layer, Frames
<1>3. Layer(pc', Frame)
  <2>1. CASE SyscallDone
    BY <1>1, <1>2, <2>1 DEF SyscallDone, Layer
  <2>2. CASE Userret \/ Rei \/ AstReturns \/ Handler
    BY <1>1, <1>2, <2>2 DEF Userret, Rei, AstReturns, Handler, Layer, Faulted
  <2>. QED
    BY <2>1, <2>2
<1>4. onfault' \in BOOLEAN /\ pc' \in Codes \ {"uvm"}
  BY <1>0, <1>2 DEF ExcInv, Shape, Codes
<1>. QED
  BY <1>0, <1>2, <1>3, <1>4, CodeKeeps

(* rte.                                                                      *)
LEMMA RteKeeps == ExcInv /\ Rte => ExcInv'
<1>. SUFFICES ASSUME ExcInv, Rte PROVE ExcInv'
  OBVIOUS
<1>1. stack # <<>> /\ Running /\ UNCHANGED <<onfault, panic>>
  BY TopFrame DEF ExcInv, Rte
<1>2. Shape' /\ Guarded'
  BY <1>1, PopKeeps DEF ExcInv, Rte
<1>. QED
  BY <1>1, <1>2 DEF ExcInv, PanicsForKernel, Running

(* The timer counts whatever the CPU does.                                   *)
LEMMA TickKeeps == ExcInv /\ (Tick \/ UNCHANGED vars) => ExcInv'
<1>. SUFFICES ASSUME ExcInv, UNCHANGED <<pc, ipl, stack, onfault, panic>> PROVE ExcInv'
  BY DEF Tick, vars
<1>1. Shape' /\ Guarded'
  BY StillKeeps DEF ExcInv, Shape
<1>. QED
  BY <1>1 DEF ExcInv, PanicsForKernel, Running

(* trap and uvm_fault.                                                       *)
LEMMA PanicKeeps ==
  ASSUME ExcInv, Running, pc # "user", DoPanic, ipl' \in 0 .. 6, onfault' \in BOOLEAN,
         /\ Frame.pc \in {"kernel", "uvm"} \/ (Frame.pc = "copy" /\ Frame.page0)
         /\ Frame.space = "kernel" /\ Frame.type \in {"MMUFLT", "BUSERR"}
  PROVE  ExcInv'
<1>1. panic' = Frame /\ UNCHANGED <<pc, stack>> /\ Frame \in Frames
  BY TopFrame DEF ExcInv, DoPanic
<1>2. ~Running'
  BY <1>1 DEF Running, NoFrame
<1>3. Shape' /\ Guarded'
  BY <1>1, <1>2, StillKeeps DEF ExcInv
<1>. QED
  BY <1>1, <1>3 DEF ExcInv, PanicsForKernel

(* copyfault: the level below is a copy, and goes on at its error label.     *)
LEMMA CopyFaultKeeps ==
  ASSUME ExcInv, Running, pc \in {"trap", "uvm"}, Armed(Depth - 1), CopyFault,
         onfault' = TRUE, UNCHANGED <<ipl, panic>>,
         Frame.type \in {"MMUFLT", "BUSERR"}
  PROVE  ExcInv' /\ Frame.pc = "copy"
<1>. DEFINE g == [Frame EXCEPT !.pc = "error"]
<1>1. stack # <<>> /\ Frame \in Frames /\ Layer(pc, Frame) /\ Frame.pc \notin {"user", "kernel", "uvm"}
  BY TopFrame DEF ExcInv
<1>2. Frame.pc = "copy"
  BY <1>1 DEF Layer, Faulted, Frames
<1>3. g \in Frames /\ g.pc = "error" /\ g.type = Frame.type
  BY <1>1 DEF Frames, Codes
<1>4. Layer("rei", g)
  BY DEF Layer, Faulted
<1>5. pc' = "rei" /\ stack' = <<g>> \o Tail(stack) /\ ipl' \in 0 .. 6
  BY DEF CopyFault, ExcInv, Shape
<1>. HIDE DEF g
<1>6. Shape' /\ Guarded'
  BY <1>1, <1>2, <1>3, <1>4, <1>5, RefitKeeps DEF ExcInv
<1>. QED
  BY <1>2, <1>6 DEF ExcInv, PanicsForKernel, Running

(* What trap and userret leave to return through; trap has not disarmed the  *)
(* copy it found, uvm_fault is to arm it again.                              *)
LEMMA TrapReturnKeeps ==
  ASSUME ExcInv, Running, pc \in {"trap", "uvm"}, pc' \in {"userret", "rei"},
         UNCHANGED <<stack, ipl, panic>>, onfault' \in BOOLEAN, onfault' <=> Armed(Depth - 1),
         pc' = "rei" => Frame.pc # "error",
         pc' = "userret" => Frame.pc = "user" \/ Frame.type = "COPERR"
  PROVE  ExcInv'
<1>1. stack # <<>> /\ Frame \in Frames /\ Layer(pc, Frame) /\ stack = <<Frame>> \o Tail(stack)
  BY TopFrame, Same DEF ExcInv
<1>2. Layer(pc', Frame)
  BY <1>1 DEF Layer, Faulted
<1>3. stack' = <<Frame>> \o Tail(stack) /\ ipl' \in 0 .. 6
  BY <1>1 DEF ExcInv, Shape
<1>4. Shape' /\ Guarded'
  BY <1>1, <1>2, <1>3, RefitKeeps DEF ExcInv
<1>. QED
  BY <1>4 DEF ExcInv, PanicsForKernel, Running

(* Each way through trap and uvm_fault; if it moves the code below, that is  *)
(* a copy.                                                                   *)
LEMMA TrapKeeps ==
  ExcInv /\ (Trap \/ MmuFault \/ UvmReturns \/ Ast)
    => ExcInv' /\ (Len(stack') = Len(stack) /\ Head(stack').pc # Frame.pc => Frame.pc = "copy")
<1>. SUFFICES ASSUME ExcInv, Trap \/ MmuFault \/ UvmReturns \/ Ast
              PROVE  /\ ExcInv'
                     /\ Len(stack') = Len(stack) /\ Head(stack').pc # Frame.pc => Frame.pc = "copy"
  OBVIOUS
<1>1. /\ Running /\ pc \in {"trap", "uvm", "ast"}
      /\ stack # <<>> /\ Frame \in Frames /\ Layer(pc, Frame) /\ Shape /\ Guarded
      /\ pc = "trap" => (onfault <=> Armed(Depth - 1))
      /\ pc = "uvm" => (Frame.onfault <=> Armed(Depth - 1))
      /\ Armed(Depth - 1) => Frame.pc \notin {"user", "kernel", "uvm"}
      /\ Frame.pc = "copy" => Armed(Depth - 1)
      /\ ipl \in 0 .. 6 /\ onfault \in BOOLEAN
  <2>1. Running /\ pc \in {"trap", "uvm", "ast"}
    BY DEF Trap, MmuFault, UvmReturns, Ast
  <2>. QED
    BY <2>1, TopFrame DEF ExcInv, Shape
<1>2. CASE Trap
  <2>1. pc = "trap" /\ Frame.type # "MMUFLT" /\ UNCHANGED <<ipl, onfault>> /\ Frame.type \in UserTypes
    BY <1>1, <1>2 DEF Trap, Layer, Frames
  <2>2. ASSUME FromUser \/ Frame.type = "COPERR", Post(Signal(Frame.type, ~FromUser)), UNCHANGED panic
        PROVE  ExcInv' /\ UNCHANGED stack
    <3>1. pc' = "userret" /\ UNCHANGED stack
      BY <2>2 DEF Post
    <3>. QED
      BY <1>1, <2>1, <2>2, <3>1, TrapReturnKeeps DEF FromUser
  <2>3. ASSUME ~FromUser, Frame.type # "COPERR", onfault, CopyFault, UNCHANGED panic
        PROVE  ExcInv' /\ Frame.pc = "copy"
    <3>1. Frame.type = "BUSERR" /\ Armed(Depth - 1) /\ onfault' = TRUE
      BY <1>1, <2>1, <2>3 DEF Layer, Faulted
    <3>. QED
      BY <1>1, <2>1, <2>3, <3>1, CopyFaultKeeps
  <2>4. ASSUME ~FromUser, Frame.type # "COPERR", ~onfault, DoPanic
        PROVE  ExcInv' /\ UNCHANGED stack
    <3>1. Frame.type = "BUSERR" /\ Frame.pc = "kernel" /\ Frame.space = "kernel"
      BY <1>1, <2>1, <2>4 DEF Layer, Faulted, FromUser
    <3>. QED
      BY <1>1, <2>1, <2>4, <3>1, PanicKeeps DEF DoPanic
  <2>5. ASSUME CacheFlush, UNCHANGED panic PROVE ExcInv' /\ UNCHANGED stack
    <3>1. pc' = "rei" /\ UNCHANGED stack /\ Frame.pc = "user"
      BY <2>5 DEF CacheFlush, Return, FromUser
    <3>. QED
      BY <1>1, <2>1, <2>5, <3>1, TrapReturnKeeps
  <2>6. Frame.type \in Signalled
    BY <2>1 DEF Signalled
  <2>7. \/ (FromUser \/ Frame.type = "COPERR") /\ Post(Signal(Frame.type, ~FromUser)) /\ UNCHANGED panic
        \/ ~FromUser /\ Frame.type # "COPERR" /\ onfault /\ CopyFault /\ UNCHANGED panic
        \/ ~FromUser /\ Frame.type # "COPERR" /\ ~onfault /\ DoPanic
        \/ CacheFlush /\ UNCHANGED panic
    BY <1>2, <2>6 DEF Trap
  <2>. QED
    BY <2>2, <2>3, <2>4, <2>5, <2>7 DEF Frame
<1>3. CASE MmuFault
  <2>1. pc = "trap" /\ Frame.type = "MMUFLT" /\ ipl' \in 0 .. 6
    BY <1>1, <1>3 DEF MmuFault
  <2>2. CASE OnKernelMap /\ Frame.page0
    <3>1. DoPanic /\ UNCHANGED onfault /\ UNCHANGED stack
      BY <1>3, <2>2 DEF MmuFault, DoPanic
    <3>2. Frame.pc \in {"kernel", "uvm", "copy"} /\ Frame.space = "kernel"
      BY <1>1, <2>1, <2>2 DEF OnKernelMap, FromUser, Layer, Faulted, UserTypes
    <3>. QED
      BY <1>1, <2>1, <2>2, <3>1, <3>2, PanicKeeps DEF Frame
  <2>3. CASE ~(OnKernelMap /\ Frame.page0)
    <3>. DEFINE g == [Frame EXCEPT !.onfault = onfault]
    <3>1. pc' = "uvm" /\ onfault' = FALSE /\ stack' = <<g>> \o Tail(stack) /\ UNCHANGED panic
      BY <1>3, <2>3 DEF MmuFault, Disarmed
    <3>2. g \in Frames /\ g.pc = Frame.pc /\ g.type = Frame.type /\ g.space = Frame.space
          /\ g.onfault = onfault
      BY <1>1 DEF Frames
    <3>3. Layer("uvm", g)
      BY <1>1, <2>1 DEF Layer, Faulted
    <3>. HIDE DEF g
    <3>4. Shape' /\ Guarded'
      BY <1>1, <2>1, <3>1, <3>2, <3>3, RefitKeeps
    <3>5. Head(stack') = g
      BY <3>1
    <3>. QED
      BY <3>1, <3>2, <3>4 DEF ExcInv, PanicsForKernel, Running
  <2>. QED
    BY <2>2, <2>3
<1>4. CASE UvmReturns
  <2>1. pc = "uvm" /\ Frame.type = "MMUFLT" /\ UNCHANGED ipl /\ onfault' = Frame.onfault /\ Frame.onfault \in BOOLEAN
    BY <1>1, <1>4 DEF UvmReturns, Rearmed, Layer, Frames
  <2>2. ASSUME pc' = (IF FromUser THEN "userret" ELSE "rei"), UNCHANGED <<stack, panic>>
        PROVE  ExcInv' /\ UNCHANGED stack
    <3>1. Frame.pc # "error"
      BY <1>1, <2>1 DEF Layer, Faulted, UserTypes
    <3>. QED
      BY <1>1, <2>1, <2>2, <3>1, TrapReturnKeeps DEF FromUser
  <2>3. ASSUME NEW s, FromUser, Post(s), UNCHANGED panic PROVE ExcInv' /\ UNCHANGED stack
    <3>1. pc' = "userret" /\ UNCHANGED stack
      BY <2>3 DEF Post
    <3>. QED
      BY <1>1, <2>1, <2>3, <3>1, TrapReturnKeeps DEF FromUser
  <2>4. ASSUME Frame.onfault, CopyFault, UNCHANGED panic PROVE ExcInv' /\ Frame.pc = "copy"
    BY <1>1, <2>1, <2>4, CopyFaultKeeps
  <2>5. ASSUME ~FromUser, ~Frame.onfault, DoPanic PROVE ExcInv' /\ UNCHANGED stack
    <3>1. Frame.pc \in {"kernel", "uvm"} /\ Frame.space = "kernel"
      BY <1>1, <2>1, <2>5 DEF Layer, Faulted, FromUser, UserTypes
    <3>. QED
      BY <1>1, <2>1, <2>5, <3>1, PanicKeeps DEF DoPanic
  <2>6. \/ pc' = (IF FromUser THEN "userret" ELSE "rei") /\ UNCHANGED <<stack, panic>>
        \/ \E s : FromUser /\ Post(s) /\ UNCHANGED panic
        \/ Frame.onfault /\ CopyFault /\ UNCHANGED panic
        \/ ~FromUser /\ ~Frame.onfault /\ DoPanic
    BY <1>4 DEF UvmReturns
  <2>. QED
    BY <2>2, <2>3, <2>4, <2>5, <2>6 DEF Frame
<1>5. CASE Ast
  <2>1. FromUser
    BY <1>1, <1>5 DEF Ast, Layer, FromUser
  <2>2. pc = "ast" /\ pc' = "astret" /\ UNCHANGED <<stack, panic, ipl, onfault>>
    BY <1>5, <2>1 DEF Ast
  <2>3. Layer(pc', Frame)
    BY <1>1, <2>2 DEF Layer, Faulted
  <2>4. ExcInv'
    BY <1>1, <2>2, <2>3, CodeKeeps DEF Codes
  <2>. QED
    BY <2>2, <2>4 DEF Frame
<1>. QED
  BY <1>2, <1>3, <1>4, <1>5

(* The process runs, nothing is interrupted.                                 *)
LEMMA ExcInit == Init => ExcInv
<1>. SUFFICES ASSUME Init PROVE ExcInv
  OBVIOUS
<1>1. stack \in Seq(Frames) /\ Len(stack) = 0
  BY DEF Init
<1>2. Shape
  <2>1. CodeAt(0) = "user" /\ \A l \in 1 .. Depth : FALSE
    BY DEF Init, Depth, CodeAt
  <2>2. pc \in Codes /\ ipl \in 0 .. 6
    BY DEF Init, Codes
  <2>3. onfault \in BOOLEAN
    BY DEF Init
  <2>. QED
    BY <1>1, <2>1, <2>2, <2>3 DEF Shape
<1>3. Guarded
  BY DEF Init, Guarded, Armed, Depth
<1>. QED
  BY <1>2, <1>3 DEF ExcInv, PanicsForKernel, Init, Running

(* Each action, by its lemma.                                                *)
LEMMA ExcNext ==
  HandlersFault = FALSE /\ ExcInv /\ [Next]_vars => ExcInv'
<1>. SUFFICES ASSUME HandlersFault = FALSE, ExcInv, [Next]_vars PROVE ExcInv'
  OBVIOUS
<1>1. DeviceInterrupt \/ ClockInterrupt => ExcInv'
  <2>1. \A l \in Levels \cup {CLK} : l \in 1 .. 6
    BY ExceptionAssumption
  <2>. QED
    BY <2>1, InterruptKeeps DEF DeviceInterrupt, ClockInterrupt
<1>. QED
  BY <1>1, UserExceptionKeeps, KernelExceptionKeeps, SyscallKeeps, KernelKeeps,
     CopyDoneKeeps, ReturnKeeps, RteKeeps, TickKeeps, TrapKeeps DEF Next

(* What holds of every state, if no interrupt handler faults.                *)
LEMMA ExcAlways == ASSUME HandlersFault = FALSE PROVE Spec => []ExcInv
  BY ExcInit, ExcNext, PTL DEF Spec

(* trap panics only for kernel memory that is not there (trap.c), whatever   *)
(* is interrupted at whatever depth of the kernel stack, as long as no       *)
(* interrupt handler takes a bus error.                                      *)
THEOREM PanicsAreTheKernels == ASSUME HandlersFault = FALSE PROVE Spec => []PanicsForKernel
<1>1. ExcInv => PanicsForKernel
  BY DEF ExcInv
<1>. QED
  BY <1>1, ExcAlways, PTL

(* trap moves the pc of a frame to the address in pcb_onfault (copyfault)    *)
(* only if that frame is a copy routine's, at every depth, as long as no     *)
(* interrupt handler takes a bus error: ExceptionsHandler.cfg shows that one *)
(* that does is resumed as if it were the copy.                              *)
THEOREM CopiesResume == ASSUME HandlersFault = FALSE PROVE Spec => ResumesInCopy
<1>. DEFINE A == stack # <<>> /\ Len(stack') = Len(stack) /\ Head(stack').pc # Frame.pc
                   => Frame.pc = "copy"
<1>1. ExcInv /\ [Next]_vars => [A]_vars
  <2>. SUFFICES ASSUME ExcInv, Next, stack # <<>>, Len(stack') = Len(stack),
                       Head(stack').pc # Frame.pc
                PROVE  Frame.pc = "copy"
    OBVIOUS
  <2>1. stack' # stack
    BY DEF Frame
  <2>2. ASSUME NEW t, NEW s, NEW p, NEW to, Exception(t, s, p, to) PROVE FALSE
    <3>1. stack \in Seq(Frames)
      BY DEF ExcInv, Shape
    <3>. QED
      BY <2>2 DEF Exception
  <2>3. ~Rte
    <3>1. stack \in Seq(Frames)
      BY DEF ExcInv, Shape
    <3>. QED
      BY DEF Rte
  <2>. QED
    BY <2>1, <2>2, <2>3, TrapKeeps DEF Next, UserException, KernelException, Syscall,
       Kernel, Splx, CopyDone, SyscallDone, Userret, Rei, AstReturns, DeviceInterrupt,
       ClockInterrupt, Interrupt, Tick, Handler, Return
<1>. QED
  BY <1>1, ExcAlways, PTL DEF Spec, ResumesInCopy

-----------------------------------------------------------------------------
(***************************************************************************)
(* What holds of isrdispatch for every set of devices, levels, priorities  *)
(* and limits: the depth that cpu_intr_p reads counts the activations at   *)
(* IPL_VM or above, and no interrupt is counted as stray or unexpected     *)
(* while every device that interrupts has a handler.                       *)
(*                                                                         *)
(* The depth needs the stack of activations only: an activation leaves     *)
(* with the level it entered with.  For the strays the reason is spread    *)
(* over the handler list, the stack and the devices.  An activation begins *)
(* for a device that is linked at its level (Placed, Linkage), and it has  *)
(* not yet passed that device or it has already been told that one was     *)
(* served (Ready).  Only a handler of the same level can serve that device *)
(* meanwhile, and no other activation of this level is on the stack,       *)
(* because levels only rise (Nested).                                      *)
(***************************************************************************)

(* The activations of isrdispatch.                                           *)
Activation == [ipl : IsrLevels, next : Nat \ {0}, handled : BOOLEAN]

(* A handler is on the list of the level its device interrupts at.           *)
Placed == \A l \in IsrLevels : \A d \in ToSet(list[l]) : LevelOf[d] = l

(* An activation only interrupts activations of lower levels.                *)
Nested == \A i, j \in DOMAIN acts : i < j => acts[i].ipl > acts[j].ipl

(* The activations that cpu_intr_p is about.                                 *)
Deep(s) == {i \in DOMAIN s : s[i].ipl >= IPL_VM}

(* Types, with that of the interrupts counted for the bound.                 *)
IsrType == TypeOK /\ raises \in [Devices -> Nat]

(* An activation that does not end as stray or unexpected: some handler has  *)
(* claimed the interrupt, or a device that still asks is ahead.              *)
Ready(a) ==
  /\ list[a.ipl] # <<>>
  /\ a.handled \/ \E k \in a.next .. Len(list[a.ipl]) : list[a.ipl][k] \in asserted

(* Every device that asks has a handler, and every activation ends well.     *)
Served == asserted \subseteq Linked /\ \A i \in DOMAIN acts : Ready(acts[i])

(* Without a device nobody attached nothing is counted.                      *)
Attributed == ~Disturbed => Served /\ straycount = 0 /\ unexpected = 0 /\ ~panicked

(* What holds of every state.                                                *)
IsrInv == IsrType /\ Placed /\ Nested /\ CpuIntrExact /\ Attributed

(* An activation on top of the stack.                                        *)
LEMMA Pushed ==
  ASSUME NEW s \in Seq(Activation), NEW a \in Activation
  PROVE  /\ <<a>> \o s \in Seq(Activation) /\ <<a>> \o s # <<>>
         /\ Head(<<a>> \o s) = a /\ Tail(<<a>> \o s) = s
         /\ DOMAIN (<<a>> \o s) = 1 .. (Len(s) + 1)
         /\ \A i \in 1 .. (Len(s) + 1) : (<<a>> \o s)[i] = IF i = 1 THEN a ELSE s[i - 1]
  OBVIOUS

(* What an activation on top adds to the depth.                              *)
LEMMA DeepPushed ==
  ASSUME NEW s \in Seq(Activation), NEW a \in Activation
  PROVE  /\ IsFiniteSet(Deep(s)) /\ Cardinality(Deep(s)) \in Nat
         /\ Cardinality(Deep(<<a>> \o s)) = Cardinality(Deep(s)) + Deeper(a.ipl)
<1>. DEFINE D == Deep(s)
            E == {i \in Deep(<<a>> \o s) : i # 1}
            f == [i \in D |-> i + 1]
<1>1. Len(s) \in Nat /\ D \subseteq 1 .. Len(s)
  BY DEF Deep
<1>2. IsFiniteSet(D) /\ Cardinality(D) \in Nat
  <2>1. IsFiniteSet(1 .. Len(s))
    BY <1>1, FS_Interval
  <2>. HIDE DEF D
  <2>. QED
    BY <1>1, <2>1, FS_Subset, FS_CardinalityType
<1>3. \A i : i \in E <=> i - 1 \in D /\ i \in 2 .. (Len(s) + 1)
  BY <1>1, Pushed DEF Deep
<1>4. \A i \in D : i + 1 \in E
  BY <1>1, Pushed DEF Deep
<1>5. \A j \in E : j - 1 \in D /\ (j - 1) + 1 = j
  BY <1>3
<1>. HIDE DEF D, E
<1>6. f \in Bijection(D, E)
  <2>1. f \in [D -> E]
    BY <1>4
  <2>2. \A i, j \in D : f[i] = f[j] => i = j
    BY <1>1
  <2>3. \A j \in E : \E i \in D : f[i] = j
    BY <1>5
  <2>. QED
    BY <2>1, <2>2, <2>3 DEF Bijection, Injection, Surjection, IsInjective
<1>7. IsFiniteSet(E) /\ Cardinality(E) = Cardinality(D)
  BY <1>2, <1>6, FS_Bijection DEF ExistsBijection
<1>8. Deep(<<a>> \o s) = IF a.ipl >= IPL_VM THEN E \cup {1} ELSE E
  BY <1>1, Pushed DEF E, Deep
<1>9. 1 \notin E
  BY DEF E
<1>10. Cardinality(Deep(<<a>> \o s)) = Cardinality(D) + Deeper(a.ipl)
  <2>1. Cardinality(E \cup {1}) = Cardinality(D) + 1
    BY <1>7, <1>9, FS_AddElement
  <2>2. CASE a.ipl >= IPL_VM
    BY <1>8, <2>1, <2>2 DEF Deeper
  <2>3. CASE ~(a.ipl >= IPL_VM)
    BY <1>2, <1>7, <1>8, <2>3 DEF Deeper
  <2>. QED
    BY <2>2, <2>3
<1>. QED
  BY <1>2, <1>10 DEF D

(* The stack is its top on the rest.                                         *)
LEMMA TopOff ==
  ASSUME IsrType, acts # <<>>
  PROVE  /\ Top \in Activation /\ Tail(acts) \in Seq(Activation) /\ acts = <<Top>> \o Tail(acts)
         /\ 1 \in DOMAIN acts /\ Top = acts[1]
         /\ DOMAIN Tail(acts) = 1 .. (Len(acts) - 1)
         /\ \A i \in DOMAIN Tail(acts) : i + 1 \in DOMAIN acts /\ Tail(acts)[i] = acts[i + 1]
<1>1. acts \in Seq(Activation)
  BY DEF IsrType, TypeOK, Activation
<1>. QED
  BY <1>1 DEF Top

(* The activation after the call of a handler.                               *)
LEMMA Changed ==
  ASSUME Top \in Activation, NEW d \in Devices,
         NEW a, a = [Top EXCEPT !.next = Top.next + 1, !.handled = Said(Top.handled, d)]
  PROVE  /\ a \in Activation /\ a.ipl = Top.ipl /\ a.next = Top.next + 1
         /\ a.handled <=> Top.handled \/ d \in asserted
<1>1. Top.next + 1 \in Nat \ {0} /\ Top.handled \in BOOLEAN
  BY DEF Activation
<1>2. Said(Top.handled, d) \in BOOLEAN /\ (Said(Top.handled, d) <=> Top.handled \/ d \in asserted)
  BY <1>1, Zenon DEF Said
<1>3. PICK y \in BOOLEAN : y = Said(Top.handled, d)
  BY <1>2
<1>4. a = [Top EXCEPT !.next = Top.next + 1, !.handled = y]
  BY <1>3, Zenon
<1>5. a \in Activation /\ a.ipl = Top.ipl /\ a.next = Top.next + 1 /\ a.handled = y
  BY <1>1, <1>4 DEF Activation
<1>. QED
  BY <1>2, <1>3, <1>5, Zenon

(* Served in the next state, one activation at a time.                       *)
LEMMA ServedNow ==
  ASSUME asserted' \subseteq Linked',
         \A i \in DOMAIN acts' : \A a : a = acts'[i] => Ready(a)'
  PROVE  Served'
  BY DEF Served, Ready

(* isrlink adds its handler to the list and loses none.                      *)
LEMMA PlaceFacts ==
  ASSUME NEW s \in Seq(Devices), NEW d \in Devices
  PROVE  Place(s, d) \in Seq(Devices) /\ ToSet(Place(s, d)) = ToSet(s) \cup {d}
<1>1. CASE Before(s, d) = {}
  BY <1>1, AppendFacts DEF Place
<1>2. CASE Before(s, d) # {}
  <2>. DEFINE B == Before(s, d)
              i == CHOOSE i \in B : \A j \in B : i <= j
  <2>1. Len(s) \in Nat /\ B \subseteq 1 .. (Len(s) - 1)
    BY DEF Before
  <2>2. \E k \in B : \A j \in B : k <= j
    <3>1. B \subseteq Nat
      BY <2>1
    <3>. HIDE DEF B
    <3>. QED
      BY <1>2, <3>1, Least DEF B
  <2>3. i \in DOMAIN s
    <3>1. i \in B
      BY <2>2
    <3>. QED
      BY <2>1, <3>1
  <2>4. Place(s, d) = InsertAt(s, i, d)
    BY <1>2 DEF Place
  <2>. HIDE DEF i
  <2>. QED
    BY <2>3, <2>4, InsertAtFacts
<1>. QED
  BY <1>1, <1>2

(* No handler, no interrupt.                                                 *)
LEMMA IsrBegins == IsrInit => IsrInv
<1>. SUFFICES ASSUME IsrInit PROVE IsrInv
  OBVIOUS
<1>1. IsrType
  <2>1. acts \in Seq(Activation) /\ list \in [IsrLevels -> Seq(Devices)]
    BY DEF IsrInit
  <2>. QED
    BY <2>1 DEF IsrInit, IsrType, TypeOK, Activation
<1>2. Placed /\ Nested
  BY DEF IsrInit, Placed, Nested, ToSet
<1>3. CpuIntrExact
  <2>1. {i \in DOMAIN acts : acts[i].ipl >= IPL_VM} = {}
    BY DEF IsrInit
  <2>. QED
    BY <2>1, FS_EmptySet DEF IsrInit, CpuIntrExact
<1>4. Attributed
  BY DEF IsrInit, Attributed, Served
<1>. QED
  BY <1>1, <1>2, <1>3, <1>4 DEF IsrInv

(* isrlink works while no activation is on the stack.                        *)
LEMMA LinkKeeps ==
  ASSUME IsrInv, NEW d \in Devices, Isrlink(d)
  PROVE  IsrInv'
<1>1. /\ acts = <<>> /\ list \in [IsrLevels -> Seq(Devices)] /\ LevelOf[d] \in IsrLevels
      /\ list' = [list EXCEPT ![LevelOf[d]] = Place(list[LevelOf[d]], d)]
      /\ UNCHANGED <<asserted, acts, idepth, straycount, unexpected, panicked, raises>>
  BY DeviceAssumption DEF IsrInv, IsrType, TypeOK, Isrlink
<1>2. \A l \in IsrLevels : /\ list'[l] \in Seq(Devices)
                        /\ ToSet(list'[l]) = IF l = LevelOf[d] THEN ToSet(list[l]) \cup {d}
                                             ELSE ToSet(list[l])
  BY <1>1, PlaceFacts
<1>3. IsrType'
  BY <1>1, <1>2 DEF IsrInv, IsrType, TypeOK
<1>4. Placed' /\ Linked \subseteq Linked'
  <2>1. Placed
    BY DEF IsrInv
  <2>2. Placed'
    BY <1>2, <2>1 DEF Placed
  <2>3. Linked \subseteq Linked'
    BY <1>2 DEF Linked
  <2>. QED
    BY <2>2, <2>3
<1>5. Nested' /\ CpuIntrExact'
  BY <1>1 DEF IsrInv, Nested, CpuIntrExact
<1>6. Attributed'
  BY <1>1, <1>4 DEF IsrInv, Attributed, Served, Disturbed
<1>. QED
  BY <1>3, <1>4, <1>5, <1>6 DEF IsrInv

(* A device that asks is linked, or Disturbed tells of it.                   *)
LEMMA RaiseKeeps ==
  ASSUME IsrInv, NEW d \in Devices, Raise(d)
  PROVE  IsrInv'
<1>1. /\ asserted' = asserted \cup {d} /\ raises' = [raises EXCEPT ![d] = raises[d] + 1]
      /\ d \in Linked \cup Unlinked /\ raises \in [Devices -> Nat]
      /\ UNCHANGED <<list, acts, idepth, straycount, unexpected, panicked>>
  BY DEF IsrInv, IsrType, Raise
<1>2. IsrType' /\ Placed' /\ Nested' /\ CpuIntrExact' /\ Linked' = Linked
  BY <1>1 DEF IsrInv, IsrType, TypeOK, Placed, Nested, CpuIntrExact, Linked
<1>3. ~Disturbed' => ~Disturbed /\ d \notin Unlinked
  BY <1>1, DeviceAssumption DEF Disturbed
<1>4. \A a : Ready(a) => Ready(a)'
  BY <1>1 DEF Ready
<1>5. Attributed'
  BY <1>1, <1>2, <1>3, <1>4 DEF IsrInv, Attributed, Served
<1>. QED
  BY <1>2, <1>5 DEF IsrInv

(* The handler of a linked device is found on the list of its level.         *)
LEMMA Linkage ==
  ASSUME IsrInv, NEW d \in Devices, d \in Linked
  PROVE  \E k \in 1 .. Len(list[LevelOf[d]]) : list[LevelOf[d]][k] = d
<1>1. PICK l \in IsrLevels : d \in ToSet(list[l])
  BY DEF Linked
<1>2. l = LevelOf[d] /\ list[l] \in Seq(Devices)
  BY <1>1 DEF IsrInv, Placed, IsrType, TypeOK
<1>. QED
  BY <1>1, <1>2 DEF ToSet

(* The vector of a level calls isrdispatch for a device of that level, which *)
(* is somewhere on the list.                                                 *)
LEMMA EnterKeeps ==
  ASSUME IsrInv, NEW l \in IsrLevels, Enter(l)
  PROVE  IsrInv'
<1>. DEFINE a == [ipl |-> l, next |-> 1, handled |-> FALSE]
<1>1. /\ a \in Activation /\ a.ipl = l /\ a.next = 1 /\ a.handled = FALSE
      /\ acts \in Seq(Activation) /\ acts' = <<a>> \o acts /\ idepth' = idepth + Deeper(l)
      /\ l > Masked /\ \E d \in asserted : LevelOf[d] = l
      /\ UNCHANGED <<list, asserted, straycount, unexpected, panicked, raises>> /\ ~panicked
  BY DEF Enter, Activation, IsrInv, IsrType, TypeOK, Unpanicked
<1>. HIDE DEF a
<1>2. /\ acts' \in Seq(Activation) /\ DOMAIN acts' = 1 .. (Len(acts) + 1)
      /\ \A i \in 1 .. (Len(acts) + 1) : acts'[i] = IF i = 1 THEN a ELSE acts[i - 1]
  BY <1>1, Pushed
<1>3. IsrType'
  BY <1>1, <1>2 DEF IsrInv, IsrType, TypeOK, Activation, Deeper
<1>4. Placed' /\ Linked' = Linked
  BY <1>1 DEF IsrInv, Placed, Linked
<1>5. \A i \in DOMAIN acts : l > acts[i].ipl
  <2>. SUFFICES ASSUME NEW i \in DOMAIN acts PROVE l > acts[i].ipl
    OBVIOUS
  <2>1. acts # <<>> /\ 1 \in DOMAIN acts /\ i \in 1 .. Len(acts) /\ Masked = acts[1].ipl
    BY <1>1 DEF Masked, Top
  <2>2. acts[1].ipl \in IsrLevels /\ acts[i].ipl \in IsrLevels
    <3>1. acts[1] \in Activation /\ acts[i] \in Activation
      BY <1>1, <2>1
    <3>. QED
      BY <3>1 DEF Activation
  <2>3. i # 1 => acts[1].ipl > acts[i].ipl
    BY <2>1 DEF IsrInv, Nested
  <2>. QED
    BY <1>1, <2>1, <2>2, <2>3 DEF IsrLevels
<1>6. Nested'
  <2>. SUFFICES ASSUME NEW i \in DOMAIN acts', NEW j \in DOMAIN acts', i < j
                PROVE  acts'[i].ipl > acts'[j].ipl
    BY DEF Nested
  <2>1. j - 1 \in DOMAIN acts /\ acts'[j] = acts[j - 1] /\ (i # 1 => i - 1 \in DOMAIN acts)
    BY <1>1, <1>2
  <2>2. CASE i = 1
    BY <1>1, <1>2, <1>5, <2>1, <2>2
  <2>3. CASE i # 1
    BY <1>2, <2>1, <2>3 DEF IsrInv, Nested
  <2>. QED
    BY <2>2, <2>3
<1>7. CpuIntrExact'
  <2>1. idepth = Cardinality(Deep(acts)) /\ acts' = <<a>> \o acts
    BY <1>1 DEF IsrInv, CpuIntrExact, Deep
  <2>2. Cardinality(Deep(acts')) = Cardinality(Deep(acts)) + Deeper(l)
    BY <1>1, DeepPushed
  <2>. QED
    BY <1>1, <2>1, <2>2 DEF CpuIntrExact, Deep
<1>8. Attributed'
  <2>1. Disturbed' <=> Disturbed
    BY <1>1 DEF Disturbed
  <2>2. ASSUME Served PROVE Ready(a)
    <3>1. PICK d \in asserted : LevelOf[d] = l
      BY <1>1
    <3>2. d \in Devices /\ d \in Linked
      BY <2>2 DEF Served, IsrInv, IsrType, TypeOK
    <3>3. PICK k \in 1 .. Len(list[l]) : list[l][k] = d
      BY <3>1, <3>2, Linkage
    <3>. QED
      BY <1>1, <3>3 DEF Ready
  <2>3. \A b : Ready(b) => Ready(b)'
    BY <1>1 DEF Ready
  <2>4. Served => Served'
    <3>. SUFFICES ASSUME Served, NEW i \in DOMAIN acts', NEW b, b = acts'[i]
                  PROVE  Ready(b)'
      BY <1>1, <1>4, ServedNow DEF Served
    <3>1. i = 1 \/ i - 1 \in DOMAIN acts
      BY <1>1, <1>2
    <3>2. Ready(b)
      BY <1>2, <2>2, <3>1 DEF Served
    <3>. QED
      BY <2>3, <3>2
  <2>. QED
    BY <1>1, <2>1, <2>4 DEF IsrInv, Attributed
<1>. QED
  BY <1>3, <1>4, <1>6, <1>7, <1>8 DEF IsrInv

(* An activation leaves, and gives back what it added to the depth.          *)
LEMMA LeaveKeeps ==
  ASSUME IsrInv, Unpanicked, acts # <<>>, Leave, UNCHANGED <<list, panicked>>
  PROVE  /\ acts' \in Seq(Activation) /\ idepth' \in Nat
         /\ Placed' /\ Linked' = Linked /\ Nested' /\ CpuIntrExact'
         /\ \A i \in DOMAIN acts' : \E j \in DOMAIN acts : acts'[i] = acts[j]
<1>1. /\ Top \in Activation /\ Tail(acts) \in Seq(Activation) /\ acts = <<Top>> \o Tail(acts)
      /\ DOMAIN Tail(acts) = 1 .. (Len(acts) - 1)
      /\ \A i \in DOMAIN Tail(acts) : i + 1 \in DOMAIN acts /\ Tail(acts)[i] = acts[i + 1]
  BY TopOff DEF IsrInv
<1>2. acts' = Tail(acts) /\ idepth' = idepth - Deeper(Top.ipl)
  BY DEF Leave
<1>3. idepth = Cardinality(Deep(acts))
  BY DEF IsrInv, CpuIntrExact, Deep, Unpanicked
<1>4. /\ Cardinality(Deep(Tail(acts))) \in Nat
      /\ Cardinality(Deep(acts)) = Cardinality(Deep(Tail(acts))) + Deeper(Top.ipl)
  BY <1>1, DeepPushed
<1>5. idepth' = Cardinality(Deep(acts'))
  BY <1>2, <1>3, <1>4 DEF Deeper
<1>6. CpuIntrExact' /\ idepth' \in Nat
  BY <1>2, <1>4, <1>5 DEF CpuIntrExact, Deep
<1>7. Nested'
  BY <1>1, <1>2 DEF IsrInv, Nested
<1>8. Placed' /\ Linked' = Linked
  BY DEF IsrInv, Placed, Linked
<1>. QED
  BY <1>1, <1>2, <1>6, <1>7, <1>8

(* A handler takes its own device from those that ask.  The activation that  *)
(* called it is told so, and the activations below work at other levels.     *)
LEMMA CallKeeps ==
  ASSUME IsrInv, Call
  PROVE  IsrInv'
<1>. DEFINE d == list[Top.ipl][Top.next]
            a == [Top EXCEPT !.next = Top.next + 1, !.handled = Said(Top.handled, d)]
            t == Tail(acts)
<1>1. /\ Top \in Activation /\ t \in Seq(Activation) /\ acts = <<Top>> \o t
      /\ DOMAIN t = 1 .. (Len(acts) - 1) /\ Len(acts) \in Nat \ {0}
      /\ 1 \in DOMAIN acts /\ Top = acts[1] /\ acts # <<>>
      /\ \A i \in DOMAIN t : i + 1 \in DOMAIN acts /\ t[i] = acts[i + 1]
  BY TopOff DEF IsrInv, Call, IsrType, TypeOK
<1>2. /\ acts' = <<a>> \o t /\ asserted' = asserted \ {d} /\ ~panicked
      /\ Top.next <= Len(list[Top.ipl])
      /\ UNCHANGED <<list, idepth, straycount, unexpected, panicked, raises>>
  BY DEF Call, Unpanicked
<1>3. Top.ipl \in IsrLevels /\ Top.next \in Nat \ {0} /\ Top.handled \in BOOLEAN
  BY <1>1 DEF Activation
<1>4. d \in Devices /\ LevelOf[d] = Top.ipl
  <2>1. list[Top.ipl] \in Seq(Devices)
    BY <1>3 DEF IsrInv, IsrType, TypeOK
  <2>2. d \in ToSet(list[Top.ipl])
    BY <1>2, <1>3, <2>1 DEF ToSet
  <2>. QED
    BY <1>2, <1>3, <2>1, <2>2 DEF IsrInv, Placed
<1>5. /\ a \in Activation /\ a.ipl = Top.ipl /\ a.next = Top.next + 1
      /\ a.handled <=> Top.handled \/ d \in asserted
  <2>1. Top \in Activation /\ d \in Devices
    BY <1>1, <1>4
  <2>. HIDE DEF d
  <2>. QED
    BY <2>1, Changed
<1>. HIDE DEF d, a, t
<1>6. /\ acts' \in Seq(Activation) /\ DOMAIN acts' = DOMAIN acts
      /\ acts'[1] = a /\ \A i \in DOMAIN acts \ {1} : acts'[i] = acts[i]
  <2>1. /\ acts' \in Seq(Activation) /\ DOMAIN acts' = 1 .. (Len(t) + 1)
        /\ \A i \in 1 .. (Len(t) + 1) : acts'[i] = IF i = 1 THEN a ELSE t[i - 1]
    BY <1>1, <1>2, <1>5, Pushed
  <2>2. Len(t) + 1 = Len(acts) /\ DOMAIN acts = 1 .. Len(acts)
    BY <1>1 DEF t
  <2>3. ASSUME NEW i \in DOMAIN acts \ {1} PROVE acts'[i] = acts[i]
    <3>1. i - 1 \in DOMAIN t /\ i - 1 + 1 = i
      BY <1>1, <2>2
    <3>. QED
      BY <1>1, <2>1, <2>2, <3>1
  <2>. QED
    BY <1>1, <2>1, <2>2, <2>3
<1>7. IsrType'
  BY <1>2, <1>6 DEF IsrInv, IsrType, TypeOK, Activation
<1>8. Placed' /\ Linked' = Linked
  BY <1>2 DEF IsrInv, Placed, Linked
<1>9. \A i \in DOMAIN acts : acts'[i].ipl = acts[i].ipl
  BY <1>1, <1>5, <1>6
<1>10. Nested'
  BY <1>6, <1>9 DEF IsrInv, Nested
<1>11. CpuIntrExact'
  BY <1>2, <1>6, <1>9 DEF IsrInv, CpuIntrExact
<1>12. Attributed'
  <2>1. Disturbed' <=> Disturbed
    BY <1>2 DEF Disturbed
  <2>2. ASSUME Served, NEW i \in DOMAIN acts, NEW b, b = acts'[i] PROVE Ready(b)'
    <3>1. Ready(acts[i]) /\ list' = list /\ asserted' = asserted \ {d}
      BY <1>2, <2>2 DEF Served
    <3>2. CASE i = 1
      <4>1. b = a /\ list[a.ipl] # <<>>
        BY <1>1, <1>5, <1>6, <2>2, <3>1, <3>2 DEF Ready
      <4>2. CASE Top.handled \/ d \in asserted
        <5>1. b.handled
          BY <1>5, <4>1, <4>2
        <5>. QED
          BY <3>1, <4>1, <5>1 DEF Ready
      <4>3. CASE ~Top.handled /\ d \notin asserted
        <5>1. PICK k \in Top.next .. Len(list[Top.ipl]) : list[Top.ipl][k] \in asserted
          BY <1>1, <3>1, <3>2, <4>3 DEF Ready
        <5>2. k # Top.next
          BY <4>3, <5>1 DEF d
        <5>3. k \in b.next .. Len(list[b.ipl]) /\ list[b.ipl][k] \in asserted'
          BY <1>3, <1>5, <3>1, <4>1, <4>3, <5>1, <5>2
        <5>. QED
          BY <3>1, <4>1, <5>3 DEF Ready
      <4>. QED
        BY <4>2, <4>3
    <3>3. CASE i # 1
      <4>1. b = acts[i] /\ b.ipl # Top.ipl /\ b \in Activation
        <5>1. i \in 1 .. Len(acts) /\ acts \in Seq(Activation)
          BY DEF IsrInv, IsrType, TypeOK, Activation
        <5>2. b = acts[i] /\ b \in Activation
          BY <1>6, <2>2, <3>3, <5>1
        <5>3. Top.ipl > b.ipl
          <6>1. 1 < i
            BY <3>3, <5>1
          <6>2. acts[1].ipl > acts[i].ipl
            BY <1>1, <6>1 DEF IsrInv, Nested
          <6>. QED
            BY <1>1, <5>2, <6>2
        <5>. QED
          BY <1>3, <5>2, <5>3 DEF Activation, IsrLevels
      <4>2. b.ipl \in IsrLevels /\ b.next \in Nat \ {0}
        BY <4>1 DEF Activation
      <4>3. ASSUME NEW k \in b.next .. Len(list[b.ipl]) PROVE list[b.ipl][k] # d
        <5>1. list[b.ipl] \in Seq(Devices)
          BY <4>2 DEF IsrInv, IsrType, TypeOK
        <5>2. list[b.ipl][k] \in ToSet(list[b.ipl])
          BY <4>2, <5>1 DEF ToSet
        <5>. QED
          BY <1>4, <4>1, <4>2, <5>2 DEF IsrInv, Placed
      <4>. QED
        BY <3>1, <4>1, <4>3 DEF Ready
    <3>. QED
      BY <3>2, <3>3
  <2>3. Served => Served'
    BY <1>2, <1>6, <1>8, <2>2, ServedNow DEF Served
  <2>. QED
    BY <1>2, <2>1, <2>3 DEF IsrInv, Attributed
<1>. QED
  BY <1>7, <1>8, <1>10, <1>11, <1>12 DEF IsrInv

(* A handler has claimed the interrupt.                                      *)
LEMMA HandledKeeps ==
  ASSUME IsrInv, Handled
  PROVE  IsrInv'
<1>1. /\ Unpanicked /\ acts # <<>> /\ Leave /\ straycount' = 0
      /\ UNCHANGED <<list, asserted, unexpected, panicked, raises>>
  BY DEF Handled
<1>2. /\ acts' \in Seq(Activation) /\ idepth' \in Nat
      /\ Placed' /\ Linked' = Linked /\ Nested' /\ CpuIntrExact'
      /\ \A i \in DOMAIN acts' : \E j \in DOMAIN acts : acts'[i] = acts[j]
  BY <1>1, LeaveKeeps
<1>3. IsrType'
  BY <1>1, <1>2 DEF IsrInv, IsrType, TypeOK, Activation
<1>4. \A b : Ready(b) => Ready(b)'
  BY <1>1 DEF Ready
<1>5. Attributed'
  BY <1>1, <1>2, <1>4 DEF IsrInv, Attributed, Served, Disturbed
<1>. QED
  BY <1>2, <1>3, <1>5 DEF IsrInv

(* An activation that was not ready: a device without a driver has           *)
(* interrupted.                                                              *)
LEMMA StrayKeeps ==
  ASSUME IsrInv, Stray \/ Unexpected
  PROVE  IsrInv'
<1>1. /\ Unpanicked /\ acts # <<>> /\ asserted' \subseteq asserted
      /\ straycount' \in Nat /\ unexpected' \in Nat
      /\ UNCHANGED <<list, raises>>
      /\ \/ panicked' = TRUE /\ UNCHANGED <<acts, idepth>>
         \/ Leave /\ UNCHANGED panicked
  BY DEF Stray, Unexpected, IsrInv, IsrType, TypeOK
<1>2. Disturbed'
  <2>1. ~Ready(Top)
    <3>1. CASE Unexpected
      BY <3>1 DEF Unexpected, Ready
    <3>2. CASE Stray
      <4>1. Top.next > Len(list[Top.ipl]) /\ ~Top.handled
        BY <3>2 DEF Stray
      <4>2. Top.next \in Nat /\ Len(list[Top.ipl]) \in Nat
        <5>1. Top \in Activation
          BY <1>1, TopOff DEF IsrInv
        <5>. QED
          BY <5>1 DEF Activation, IsrInv, IsrType, TypeOK
      <4>. QED
        BY <4>1, <4>2 DEF Ready
    <3>. QED
      BY <3>1, <3>2
  <2>2. 1 \in DOMAIN acts /\ Top = acts[1]
    BY <1>1, TopOff DEF IsrInv
  <2>. QED
    BY <1>1, <2>1, <2>2 DEF IsrInv, Attributed, Served, Disturbed
<1>3. CASE panicked' = TRUE /\ UNCHANGED <<acts, idepth>>
  BY <1>1, <1>2, <1>3
  DEF IsrInv, IsrType, TypeOK, Placed, Nested, CpuIntrExact, Attributed
<1>4. CASE Leave /\ UNCHANGED panicked
  <2>1. /\ acts' \in Seq(Activation) /\ idepth' \in Nat
        /\ Placed' /\ Nested' /\ CpuIntrExact'
    BY <1>1, <1>4, LeaveKeeps
  <2>2. IsrType'
    BY <1>1, <1>4, <2>1 DEF IsrInv, IsrType, TypeOK, Activation
  <2>. QED
    BY <1>2, <2>1, <2>2 DEF IsrInv, Attributed
<1>. QED
  BY <1>1, <1>3, <1>4

(* Every step keeps the invariant.                                           *)
LEMMA IsrGoesOn == IsrInv /\ [IsrNext]_isrVars => IsrInv'
<1>. SUFFICES ASSUME IsrInv, [IsrNext]_isrVars PROVE IsrInv'
  OBVIOUS
<1>1. CASE UNCHANGED isrVars
  <2>1. IsrType' /\ Placed' /\ Nested' /\ CpuIntrExact'
    BY <1>1 DEF isrVars, IsrInv, IsrType, TypeOK, Placed, Nested, CpuIntrExact
  <2>2. Attributed'
    BY <1>1 DEF isrVars, IsrInv, Attributed, Served, Disturbed, Linked, Ready
  <2>. QED
    BY <2>1, <2>2 DEF IsrInv
<1>. QED
  BY <1>1, LinkKeeps, RaiseKeeps, EnterKeeps, CallKeeps, HandledKeeps, StrayKeeps
  DEF IsrNext, Dispatch

(* So it always holds.                                                       *)
LEMMA IsrAlways == IsrSpec => []IsrInv
  BY IsrBegins, IsrGoesOn, PTL DEF IsrSpec

(* The lists, the activations and the counters have their types.             *)
THEOREM IsrTypes == IsrSpec => []TypeOK
<1>1. IsrInv => TypeOK
  BY DEF IsrInv, IsrType
<1>. QED
  BY <1>1, IsrAlways, PTL

(* cpu_intr_p is true exactly while an activation at IPL_VM or above is      *)
(* under way, however often the levels above have interrupted it and         *)
(* whichever way those have ended (isr.c, isrdispatch).                      *)
THEOREM DepthIsExact == IsrSpec => []CpuIntrExact
<1>1. IsrInv => CpuIntrExact
  BY DEF IsrInv
<1>. QED
  BY <1>1, IsrAlways, PTL

(* straycount and unexpected stay 0, and isrdispatch does not panic, as long *)
(* as every device that interrupts was linked: a handler interrupted or      *)
(* preceded by others of its level is never taken for a stray (isr.c,        *)
(* isrdispatch).                                                             *)
THEOREM StraysAreReal == IsrSpec => []OnlyStraysCounted
<1>1. IsrInv => OnlyStraysCounted
  BY DEF IsrInv, Attributed, OnlyStraysCounted
<1>. QED
  BY <1>1, IsrAlways, PTL
=============================================================================
